---- MODULE Spec2Model ----
(***************************************************************************)
(* SecurePatrol (BaanCHECK): the checkpoint verification engine of the     *)
(* Scanner component, the App-level scan record store and the sheet        *)
(* reconciliation client, as a state machine.                              *)
(*                                                                         *)
(* Representation.                                                         *)
(*  - An optional value (a TypeScript `?` field, null, undefined) is a     *)
(*    sequence of length 0 (None) or 1 (Some(x)).                          *)
(*  - Coordinates lie on one meridian and latitude is measured in metres   *)
(*    of arc, so that the haversine distance of utils.ts is the absolute   *)
(*    difference of the two latitudes.                                     *)
(*  - A "HH:mm" string is the pair <<HH, mm>> that split(':').map(Number)  *)
(*    produces from it.                                                    *)
(*  - Date.now() is the variable clock; elapsed time of pending timers is  *)
(*    kept per timer, in milliseconds.                                     *)
(***************************************************************************)
EXTENDS Integers, Sequences, FiniteSets, TLC

VARIABLES
    \* ---- App (src/unnamed/part_000) ----
    currentView,        \* 'dashboard' | 'scanner' | 'admin-setup'
    logs,               \* ScanLog[]
    checkpoints,        \* Checkpoint[]
    officers,           \* User[]
    initialScanId,      \* string | null
    isSyncing,          \* boolean
    persisted,          \* localStorage: the keys securepatrol_checkpoints and securepatrol_officers
    isDefault,          \* the state is the DEFAULT_ constant itself (the same reference)
    \* ---- sheetService (src/unnamed/part_002) ----
    scriptUrl,          \* GOOGLE_SCRIPT_URL is non-empty
    \* ---- Scanner (src/unnamed/part_001), state of the mounted instance ----
    processing,
    hasAutoScanned,
    pendingLog,         \* ScanLog | null
    noteText,
    hasPhoto,
    selectedOfficerId,
    \* ---- asynchronous work in flight ----
    attempts,           \* handleSimulatedScan calls suspended at Promise.race
    autoScan,           \* the 500 ms auto-scan timer of the deep link
    pulls,              \* number of loadCloudData calls awaiting fetchAllDataFromSheet
    pushes,             \* sendToSheet fetches in flight, by action kind
    settleTimers,       \* setTimeout(() => loadCloudData(), 2000) timers: elapsed ms
    \* ---- environment and observation ----
    clock,              \* Date.now()
    alertMsg,           \* the alert() on screen, "" when there is none
    camera,             \* the camera of the mounted Scanner and the streams in use
    scans,              \* verification attempts started so far
    edits               \* administrative changes made so far

vars == <<currentView, logs, checkpoints, officers, initialScanId, isSyncing,
          persisted, isDefault, scriptUrl, processing, hasAutoScanned, pendingLog, noteText, hasPhoto,
          selectedOfficerId, attempts, autoScan, pulls, pushes, settleTimers,
          clock, alertMsg, camera, scans, edits>>

appVars == <<currentView, logs, checkpoints, officers, initialScanId, isSyncing,
             persisted, isDefault>>
scannerVars == <<processing, hasAutoScanned, pendingLog, noteText, hasPhoto,
                 selectedOfficerId>>

----------------------------------------------------------------------------
\* Bounds of the model.

MaxClock == 2          \* Date.now() takes the values Epoch .. Epoch + MaxClock
MaxLogs == 2           \* a scan is confirmed only while Len(logs) < MaxLogs
MaxAttempts == 2       \* location acquisitions in flight
MaxPulls == 2          \* pulls in flight
MaxPushes == 2         \* pushes in flight
MaxTimers == 2         \* settle timers pending
MaxRecordScans == 2    \* scans of a patrol that confirms record after record
MaxScans == 1          \* a simulation button is pressed only while fewer attempts were made
MaxEdits == 2          \* administrative changes per behaviour
Epoch == 1000          \* the value of Date.now() in the initial state

----------------------------------------------------------------------------
\* Optional values and small helpers.

None == <<>>
Some(x) == <<x>>
IsSome(o) == Len(o) = 1
Get(o) == o[1]

Abs(n) == IF n < 0 THEN -n ELSE n
Min(a, b) == IF a < b THEN a ELSE b

\* Array.prototype.find: the first element satisfying the test, or undefined.
RECURSIVE findById(_, _)
findById(arr, id) ==
    IF arr = <<>> THEN None
    ELSE IF Head(arr).id = id THEN Some(Head(arr))
    ELSE findById(Tail(arr), id)

\* Array.prototype.filter(o => o.id !== id)
RECURSIVE filterOutId(_, _)
filterOutId(arr, id) ==
    IF arr = <<>> THEN <<>>
    ELSE IF Head(arr).id # id THEN <<Head(arr)>> \o filterOutId(Tail(arr), id)
    ELSE filterOutId(Tail(arr), id)

Range(s) == {s[i] : i \in DOMAIN s}

----------------------------------------------------------------------------
\* Program constants.

SettleDelay == 2000        \* setTimeout(() => loadCloudData(), 2000)
AutoScanDelay == 500       \* setTimeout(..., 500) of the auto-scan effect
GpsTimeout == 10000        \* "GPS timed out" timer of handleSimulatedScan
PoorAccuracy == 100        \* accuracy > 100
DefaultTolerance == 10     \* toleranceMinutes || 10
DefaultRadius == 50        \* Number(row.allowedRadiusMeters) || 50
AdminTolerance == 15       \* toleranceMinutes: 15 of handleSubmitCheckpoint

\* ScheduleConfig (types.ts)
Schedule(type, fixedTimes, intervalMinutes, toleranceMinutes) ==
    [type |-> type, fixedTimes |-> fixedTimes,
     intervalMinutes |-> intervalMinutes, toleranceMinutes |-> toleranceMinutes]

\* Coordinates (types.ts); longitude is the same for every point.
Coordinates(latitude, accuracy) == [latitude |-> latitude, accuracy |-> accuracy]

DEFAULT_CHECKPOINTS ==
    << [id |-> "cp-001", name |-> "Main Entrance Gate",
        location |-> Coordinates(0, None), allowedRadiusMeters |-> 100,
        schedule |-> Some(Schedule("FIXED_TIME",
                          Some(<< <<8, 0>>, <<12, 0>>, <<16, 0>>, <<20, 0>> >>),
                          None, Some(10)))],
       [id |-> "cp-002", name |-> "Server Room B2",
        location |-> Coordinates(30, None), allowedRadiusMeters |-> 50,
        schedule |-> Some(Schedule("INTERVAL", None, Some(60), None))] >>

DEFAULT_OFFICERS ==
    << [id |-> "OFF-001", name |-> "Somsak Jaidee", role |-> "OFFICER"],
       [id |-> "OFF-002", name |-> "Mana Meemark", role |-> "OFFICER"] >>

----------------------------------------------------------------------------
\* Persistence (App): JSON texts in localStorage.
\*
\* A stored text is [raw |-> t] when JSON.parse throws on it (or it is empty)
\* and [json |-> v] when it parses to the JSON value v. A JSON array is a
\* sequence, a JSON object is a function of the keys it has: JSON.stringify
\* leaves out a property whose value is undefined, and reading a key that an
\* object does not have yields undefined. A JSON value that is not an array is
\* the one-element sequence << [notArray |-> text] >>.

NotArray(text) == << [notArray |-> text] >>

\* Array.isArray
isArray(v) == ~(Len(v) = 1 /\ DOMAIN v[1] = {"notArray"})

\* obj[k], undefined when obj has no key k
prop(obj, k) == IF k \in DOMAIN obj THEN Some(obj[k]) ELSE None

\* The properties JSON.stringify writes for an object with the required keys
\* req and the optional keys (None is undefined) opt.
present(obj, req, opt) == req \cup {k \in opt : IsSome(obj[k])}

jsonSchedule(s) ==
    [k \in present(s, {"type"}, {"fixedTimes", "intervalMinutes", "toleranceMinutes"}) |->
        IF k = "type" THEN s.type ELSE Get(s[k])]

jsonCoordinates(c) ==
    [k \in present(c, {"latitude"}, {"accuracy"}) |->
        IF k = "latitude" THEN c.latitude ELSE Get(c[k])]

jsonCheckpoint(cp) ==
    [k \in present(cp, {"id", "name", "location", "allowedRadiusMeters"}, {"schedule"}) |->
        IF k = "location" THEN jsonCoordinates(cp.location)
        ELSE IF k = "schedule" THEN jsonSchedule(Get(cp.schedule))
        ELSE cp[k]]

\* A parsed object read as a ScheduleConfig, Coordinates or Checkpoint.
asSchedule(obj) ==
    Schedule(obj.type, prop(obj, "fixedTimes"), prop(obj, "intervalMinutes"),
             prop(obj, "toleranceMinutes"))

asCoordinates(obj) == Coordinates(obj.latitude, prop(obj, "accuracy"))

asCheckpoint(obj) ==
    [id |-> obj.id, name |-> obj.name, location |-> asCoordinates(obj.location),
     allowedRadiusMeters |-> obj.allowedRadiusMeters,
     schedule |-> IF "schedule" \in DOMAIN obj
                  THEN Some(asSchedule(obj.schedule)) ELSE None]

\* JSON.stringify(checkpoints) and JSON.stringify(officers); a User has no
\* optional property.
stringifyCheckpoints(v) ==
    [json |-> IF isArray(v) THEN [i \in DOMAIN v |-> jsonCheckpoint(v[i])] ELSE v]

stringifyOfficers(v) == [json |-> v]

\* JSON.parse(saved) of a text that parses, read as Checkpoint[] or User[]
parseCheckpoints(text) ==
    IF isArray(text.json) THEN [i \in DOMAIN text.json |-> asCheckpoint(text.json[i])]
    ELSE text.json

parseOfficers(text) == text.json

\* JSON.parse throws on the text, or the text is empty (falsy).
unparsable(text) == "raw" \in DOMAIN text

\* try { const saved = localStorage.getItem(key);
\*       return saved ? JSON.parse(saved) : DEFAULT } catch { return DEFAULT }
loadCheckpoints(saved) ==
    IF saved = None \/ unparsable(Get(saved)) THEN DEFAULT_CHECKPOINTS
    ELSE parseCheckpoints(Get(saved))

loadOfficers(saved) ==
    IF saved = None \/ unparsable(Get(saved)) THEN DEFAULT_OFFICERS
    ELSE parseOfficers(Get(saved))

\* What localStorage may hold when the App starts: nothing, a text that does
\* not parse, a JSON value that is not an array, or a registry saved earlier.
SavedCheckpoints ==
    { None,
      Some([raw |-> "[{"]),
      Some([json |-> NotArray("{}")]),
      Some([json |-> NotArray("null")]),
      Some(stringifyCheckpoints(DEFAULT_CHECKPOINTS)),
      Some(stringifyCheckpoints(<< DEFAULT_CHECKPOINTS[2] >>)) }

SavedOfficers ==
    { None,
      Some([raw |-> ""]),
      Some(stringifyOfficers(<< DEFAULT_OFFICERS[1] >>)) }

----------------------------------------------------------------------------
\* utils.ts

calculateDistance(coords1, coords2) == Abs(coords2.latitude - coords1.latitude)

----------------------------------------------------------------------------
\* The verdict computation of handleSimulatedScan (Scanner).

\* const accuracy = currentLocation.accuracy || 0
accuracyOf(currentLocation) ==
    IF IsSome(currentLocation.accuracy) THEN Get(currentLocation.accuracy) ELSE 0

isNearby(currentLocation, targetCheckpoint) ==
    calculateDistance(currentLocation, targetCheckpoint.location)
        <= targetCheckpoint.allowedRadiusMeters

\* A plausible slip: an accuracy of exactly 100 m counts as poor.
isGpsPoorInclusive(currentLocation) == accuracyOf(currentLocation) >= PoorAccuracy

\* const isGpsPoor = accuracy > 100
isGpsPoor(currentLocation) == accuracyOf(currentLocation) > PoorAccuracy

\* const tolerance = schedule.toleranceMinutes || 10
toleranceOf(schedule) ==
    IF IsSome(schedule.toleranceMinutes) /\ Get(schedule.toleranceMinutes) # 0
    THEN Get(schedule.toleranceMinutes)
    ELSE DefaultTolerance

\* const [h, m] = timeStr.split(':').map(Number); h * 60 + m
targetMinutes(timeStr) == timeStr[1] * 60 + timeStr[2]

\* A plausible slip: the difference is taken around the clock, through midnight.
isValidTimeWrapped(schedule, currentMinutes) ==
    \E i \in DOMAIN Get(schedule.fixedTimes) :
        LET diff == Abs(currentMinutes - targetMinutes(Get(schedule.fixedTimes)[i]))
        IN Min(diff, 1440 - diff) <= toleranceOf(schedule)

\* fixedTimes.some(timeStr => Math.abs(currentMinutes - targetMinutes) <= tolerance)
isValidTime(schedule, currentMinutes) ==
    \E i \in DOMAIN Get(schedule.fixedTimes) :
        Abs(currentMinutes - targetMinutes(Get(schedule.fixedTimes)[i]))
            <= toleranceOf(schedule)

\* A plausible slip: an empty fixedTimes list counts as no list.
scheduleCheckedNonEmpty(targetCheckpoint) ==
    /\ IsSome(targetCheckpoint.schedule)
    /\ Get(targetCheckpoint.schedule).type = "FIXED_TIME"
    /\ IsSome(Get(targetCheckpoint.schedule).fixedTimes)
    /\ Len(Get(Get(targetCheckpoint.schedule).fixedTimes)) > 0

\* the guard of the time check: schedule?.type === 'FIXED_TIME' && schedule.fixedTimes
\* (an empty array is truthy, a missing field is not)
scheduleChecked(targetCheckpoint) ==
    /\ IsSome(targetCheckpoint.schedule)
    /\ Get(targetCheckpoint.schedule).type = "FIXED_TIME"
    /\ IsSome(Get(targetCheckpoint.schedule).fixedTimes)

\* A plausible slip: an INTERVAL schedule is enforced on multiples of its interval.
timeStatusIntervalEnforced(targetCheckpoint, currentMinutes) ==
    IF scheduleChecked(targetCheckpoint)
          /\ ~isValidTime(Get(targetCheckpoint.schedule), currentMinutes)
    THEN "INVALID_TIME"
    ELSE IF /\ IsSome(targetCheckpoint.schedule)
            /\ Get(targetCheckpoint.schedule).type = "INTERVAL"
            /\ IsSome(Get(targetCheckpoint.schedule).intervalMinutes)
            /\ currentMinutes % Get(Get(targetCheckpoint.schedule).intervalMinutes) # 0
    THEN "INVALID_TIME"
    ELSE "VALID"

\* let timeStatus = 'VALID'; if (schedule?.type === 'FIXED_TIME' && schedule.fixedTimes)
\* { if (!isValidTime) timeStatus = 'INVALID_TIME' }
timeStatus(targetCheckpoint, currentMinutes) ==
    IF scheduleChecked(targetCheckpoint)
          /\ ~isValidTime(Get(targetCheckpoint.schedule), currentMinutes)
    THEN "INVALID_TIME"
    ELSE "VALID"

\* A plausible slip: the GPS override is tested before the schedule.
scanStatusGpsFirst(timeSt, gpsPoor, nearby) ==
    IF gpsPoor THEN "VALID"
    ELSE IF timeSt = "INVALID_TIME" THEN "INVALID_TIME"
    ELSE IF ~nearby THEN "INVALID_LOCATION"
    ELSE "VALID"

\* A plausible slip: the geofence is tested before the GPS override.
scanStatusFenceFirst(timeSt, gpsPoor, nearby) ==
    IF timeSt = "INVALID_TIME" THEN "INVALID_TIME"
    ELSE IF ~nearby THEN "INVALID_LOCATION"
    ELSE "VALID"

\* A plausible slip: the geofence verdict is dropped.
scanStatusNoFence(timeSt, gpsPoor, nearby) ==
    IF timeSt = "INVALID_TIME" THEN "INVALID_TIME" ELSE "VALID"

\* "Logic Priority": the if / else-if chain that sets status.
scanStatus(timeSt, gpsPoor, nearby) ==
    IF timeSt = "INVALID_TIME" THEN "INVALID_TIME"
    ELSE IF gpsPoor THEN "VALID"
    ELSE IF ~nearby THEN "INVALID_LOCATION"
    ELSE "VALID"

\* autoNote, without the numbers interpolated into it.
autoNote(timeSt, gpsPoor, nearby) ==
    IF timeSt = "INVALID_TIME" THEN "Wrong Time."
    ELSE IF gpsPoor THEN "Weak GPS. Verified by QR."
    ELSE IF ~nearby THEN "Location Mismatch."
    ELSE "Routine Check: OK"

\* A plausible slip: the id of the draft is taken from its checkpoint.
draftLogCheckpointId(targetCheckpoint, currentLocation, currentMinutes, now) ==
    LET timeSt == timeStatus(targetCheckpoint, currentMinutes)
        poor   == isGpsPoor(currentLocation)
        near   == isNearby(currentLocation, targetCheckpoint)
    IN [id |-> targetCheckpoint.id,
        checkpointId |-> targetCheckpoint.id,
        checkpointName |-> targetCheckpoint.name,
        officerId |-> "",
        timestamp |-> now,
        status |-> scanStatus(timeSt, poor, near),
        userLocation |-> Some(currentLocation),
        distanceFromTarget |-> calculateDistance(currentLocation, targetCheckpoint.location),
        note |-> autoNote(timeSt, poor, near),
        evidencePhotoUrl |-> None]

\* const draftLog: ScanLog = { ... }
draftLog(targetCheckpoint, currentLocation, currentMinutes, now) ==
    LET timeSt == timeStatus(targetCheckpoint, currentMinutes)
        poor   == isGpsPoor(currentLocation)
        near   == isNearby(currentLocation, targetCheckpoint)
    IN [id |-> ToString(now),
        checkpointId |-> targetCheckpoint.id,
        checkpointName |-> targetCheckpoint.name,
        officerId |-> "",
        timestamp |-> now,
        status |-> scanStatus(timeSt, poor, near),
        userLocation |-> Some(currentLocation),
        distanceFromTarget |-> calculateDistance(currentLocation, targetCheckpoint.location),
        note |-> autoNote(timeSt, poor, near),
        evidencePhotoUrl |-> None]


----------------------------------------------------------------------------
\* Inputs of the environment.

\* Position fixes the location sensor may deliver.
Readings ==
    { Coordinates(90, Some(100)),    \* 90 m from the gate, 60 m from Server Room B2
      Coordinates(90, Some(150)),    \* the same place, poor accuracy
      Coordinates(130, None) }       \* outside both fences, no accuracy reported

\* Minute of day (getHours() * 60 + getMinutes()) at the time of a scan.
NowMinutes == {469, 470, 485, 490, 491}

\* Rows of the sheet, as the script returns them in data.logs / officers / checkpoints.
SheetLogRows ==
    << [checkpointName |-> "Main Entrance Gate", officerId |-> "Somsak Jaidee (OFF-001)",
        status |-> "VALID", note |-> "Routine Check: OK",
        timestamp |-> <<"ISO", 900>>, distanceFromTarget |-> None,
        userLocation |-> None] >>

SheetOfficerRows ==
    << [id |-> "OFF-001", name |-> "Somsak Jaidee", role |-> "OFFICER"],
       [id |-> "OFF-003", name |-> "Wichai Dee", role |-> "OFFICER"] >>

SheetCheckpointRows ==
    << [id |-> "cp-001", name |-> "Main Entrance Gate", latitude |-> 0,
        allowedRadiusMeters |-> None,
        schedule |-> Some(Schedule("FIXED_TIME", Some(<< <<8, 0>> >>), None, Some(0)))] >>

\* The JSON bodies a GET of the script URL may return.
SheetData ==
    [logs : {<<>>, SheetLogRows},
     officers : {<<>>, SheetOfficerRows},
     checkpoints : {<<>>, SheetCheckpointRows}]

\* The configuration files the admin may import: JSON arrays of checkpoints. The
\* schedule of a Checkpoint is optional.
ImportFiles ==
    { << [id |-> "cp-a", name |-> "Pier", location |-> Coordinates(0, None),
          allowedRadiusMeters |-> 90, schedule |-> None],
         [id |-> "cp-b", name |-> "Depot", location |-> Coordinates(30, None),
          allowedRadiusMeters |-> 50,
          schedule |-> Some(Schedule("NONE", None, None, None))] >>,
      << [id |-> "cp-c", name |-> "Fence North", location |-> Coordinates(0, None),
          allowedRadiusMeters |-> 100,
          schedule |-> Some(Schedule("INTERVAL", None, Some(7), None))],
         [id |-> "cp-d", name |-> "Vault", location |-> Coordinates(30, None),
          allowedRadiusMeters |-> 100,
          schedule |-> Some(Schedule("FIXED_TIME", Some(<< <<8, 0>> >>), None, Some(5)))] >>,
      << [id |-> "cp-e", name |-> "Night Gate", location |-> Coordinates(0, None),
          allowedRadiusMeters |-> 90,
          schedule |-> Some(Schedule("FIXED_TIME", Some(<< <<23, 55>> >>), None, Some(10)))] >>,
      << [id |-> "cp-f", name |-> "Archive", location |-> Coordinates(0, None),
          allowedRadiusMeters |-> 90,
          schedule |-> Some(Schedule("FIXED_TIME", Some(<< >>), None, Some(15)))],
         [id |-> "cp-g", name |-> "Annex", location |-> Coordinates(0, None),
          allowedRadiusMeters |-> 90,
          schedule |-> Some(Schedule("FIXED_TIME", None, None, Some(15)))] >>,
      << >> }

\* Minutes of day at which a scan of an imported registry may resolve: those of
\* NowMinutes and the minutes around midnight.
VerdictMinutes == NowMinutes \cup {0, 3, 1439}

\* Bodies whose log sheet has no, one or two rows.
RecordSheetData ==
    [logs : {<<>>, SheetLogRows,
             SheetLogRows \o << [checkpointName |-> "Server Room B2",
                                  officerId |-> "Mana Meemark (OFF-002)",
                                  status |-> "INVALID_LOCATION", note |-> "Location Mismatch.",
                                  timestamp |-> <<"ISO", 950>>,
                                  distanceFromTarget |-> Some(60),
                                  userLocation |-> None] >>},
     officers : {<<>>},
     checkpoints : {<<>>}]

\* What the admin forms may submit.
NewCheckpointTypes == {"NONE", "FIXED_TIME"}
NewOfficers == { [id |-> "OFF-009", name |-> "Nina Ray", role |-> "OFFICER"] }
UserNotes == {"Door locked"}

PushKinds == {"LOG", "ADD_CHECKPOINT", "ADD_OFFICER", "REMOVE_OFFICER"}
MaxRegistry == 3       \* checkpoints and officers are added only below this length

----------------------------------------------------------------------------
\* sheetService: fetchAllDataFromSheet

\* new Date(row.timestamp).getTime()
parseTimestamp(ts) == ts[2]

\* Number(x) || fallback
numberOr(x, fallback) == IF IsSome(x) /\ Get(x) # 0 THEN Get(x) ELSE fallback

\* A plausible slip: the row's checkpoint name is taken for the record's id.
parsedLogsNameAsId(rows) ==
    [index \in DOMAIN rows |->
        [id |-> "sheet-" \o ToString(index - 1),
         checkpointId |-> rows[index].checkpointName,
         checkpointName |-> rows[index].checkpointName,
         officerId |-> rows[index].officerId,
         timestamp |-> parseTimestamp(rows[index].timestamp),
         status |-> rows[index].status,
         userLocation |-> rows[index].userLocation,
         distanceFromTarget |-> numberOr(rows[index].distanceFromTarget, 0),
         note |-> rows[index].note,
         evidencePhotoUrl |-> None]]

\* data.logs.map((row, index) => ({ id: `sheet-${index}`, checkpointId: "unknown", ... }))
parsedLogs(rows) ==
    [index \in DOMAIN rows |->
        [id |-> "sheet-" \o ToString(index - 1),
         checkpointId |-> "unknown",
         checkpointName |-> rows[index].checkpointName,
         officerId |-> rows[index].officerId,
         timestamp |-> parseTimestamp(rows[index].timestamp),
         status |-> rows[index].status,
         userLocation |-> rows[index].userLocation,
         distanceFromTarget |-> numberOr(rows[index].distanceFromTarget, 0),
         note |-> rows[index].note,
         evidencePhotoUrl |-> None]]

parsedOfficers(rows) ==
    [i \in DOMAIN rows |->
        [id |-> rows[i].id, name |-> rows[i].name, role |-> rows[i].role]]

parsedCheckpoints(rows) ==
    [i \in DOMAIN rows |->
        [id |-> rows[i].id, name |-> rows[i].name,
         location |-> Coordinates(rows[i].latitude, None),
         allowedRadiusMeters |-> numberOr(rows[i].allowedRadiusMeters, DefaultRadius),
         schedule |-> IF IsSome(rows[i].schedule) THEN rows[i].schedule
                      ELSE Some(Schedule("NONE", None, None, None))]]

\* The result of fetchAllDataFromSheet: the parsed body, or three empty arrays
\* when fetch or response.json() throws.
fetchAllDataFromSheet(ok, data) ==
    IF ok
    THEN [logs |-> parsedLogs(data.logs), officers |-> parsedOfficers(data.officers),
          checkpoints |-> parsedCheckpoints(data.checkpoints)]
    ELSE [logs |-> <<>>, officers |-> <<>>, checkpoints |-> <<>>]


----------------------------------------------------------------------------
\* Shared pieces of the handlers.

idsOf(arr) == {arr[i].id : i \in DOMAIN arr}

removeAt(seq, i) == SubSeq(seq, 1, i - 1) \o SubSeq(seq, i + 1, Len(seq))

pushesInFlight == pushes["LOG"] + pushes["ADD_CHECKPOINT"]
                    + pushes["ADD_OFFICER"] + pushes["REMOVE_OFFICER"]

\* The camera. call is the startCamera call of the mounted Scanner that waits
\* for getUserMedia (at most one: the Retry button shows only once a call has
\* failed); dead holds the waiting calls of unmounted instances; streamRef says
\* whether streamRef.current holds a stream; active counts the streams whose
\* tracks run; cameraError is the state of that name. The page is served in a
\* secure context by a browser that has navigator.mediaDevices.
CameraPhases == {"environment", "fallback"}

noCamera ==
    [call |-> None, dead |-> {}, streamRef |-> FALSE, active |-> 0, cameraError |-> FALSE]

\* stopCamera: the tracks of streamRef.current are stopped and the ref cleared.
stopCamera(cam) ==
    [cam EXCEPT !.active = IF cam.streamRef THEN @ - 1 ELSE @,
                !.streamRef = FALSE]

\* startCamera of a mounted Scanner up to getUserMedia (the 100 ms delay is
\* part of the wait): setCameraError(null), stopCamera(), then the request
\* for the environment camera.
startCamera(cam) ==
    [stopCamera([cam EXCEPT !.cameraError = FALSE]) EXCEPT !.call = Some("environment")]

\* The cleanup of the mount effect: mountedRef.current = false; stopCamera().
\* A waiting call goes on and will see the flag.
cameraUnmount(cam) ==
    [stopCamera(cam) EXCEPT !.call = None,
                            !.dead = IF IsSome(cam.call) THEN @ \cup {Get(cam.call)} ELSE @,
                            !.cameraError = FALSE]

\* A fresh Scanner instance: the useState initial values.
scannerReset ==
    /\ processing' = FALSE
    /\ hasAutoScanned' = FALSE
    /\ pendingLog' = None
    /\ noteText' = ""
    /\ hasPhoto' = FALSE
    /\ selectedOfficerId' = ""

\* The cleanup of the mount effect: mountedRef.current = false. Suspended scans
\* and the auto-scan timer of the instance keep running and see the flag.
scannerUnmount ==
    /\ scannerReset
    /\ attempts' = [i \in DOMAIN attempts |-> [attempts[i] EXCEPT !.live = FALSE]]
    /\ autoScan' = IF IsSome(autoScan)
                   THEN Some([Get(autoScan) EXCEPT !.live = FALSE])
                   ELSE None
    /\ camera' = cameraUnmount(camera)

\* loadCloudData up to its await: nothing without a script URL, else the fetch starts.
loadCloudData ==
    IF scriptUrl
    THEN /\ pulls' = pulls + 1
         /\ isSyncing' = TRUE
    ELSE UNCHANGED <<pulls, isSyncing>>

\* sendToSheet up to its await, for a push of the given kind. Without a script URL
\* it returns false at once and the caller's continuation runs in the same turn.
sendToSheet(kind) ==
    /\ scriptUrl
    /\ pushes' = [pushes EXCEPT ![kind] = @ + 1]

----------------------------------------------------------------------------
\* Initial state: the App after its first render and effects. A deep link
\* (?checkpointId=...) that names a known checkpoint opens the scanner, whose
\* auto-scan effect arms its timer.

DeepLinks == {None, Some("cp-002"), Some("cp-404")}

\* The App starts with localStorage holding savedCheckpoints and savedOfficers,
\* the location holding the deep link cpId, and a script URL or none. The lazy
\* initial states are loaded; then the effects of the first render run in
\* order: the two persistence effects, the initial loadCloudData, the deep link
\* handler. checkpoints.find throws when checkpoints is not an array, and the
\* ErrorBoundary of index.tsx then replaces the App by its "System Error" page.
startup(savedCheckpoints, savedOfficers, cpId, url) ==
    /\ logs = <<>>
    /\ checkpoints = loadCheckpoints(savedCheckpoints)
    /\ officers = loadOfficers(savedOfficers)
    /\ isDefault = [checkpoints |-> savedCheckpoints = None \/ unparsable(Get(savedCheckpoints)),
                    officers |-> savedOfficers = None \/ unparsable(Get(savedOfficers))]
    /\ persisted = [securepatrol_checkpoints |-> Some(stringifyCheckpoints(checkpoints)),
                    securepatrol_officers |-> Some(stringifyOfficers(officers))]
    /\ scriptUrl = url
    /\ pulls = IF scriptUrl THEN 1 ELSE 0
    /\ isSyncing = scriptUrl
    /\ LET thrown == IsSome(cpId) /\ ~isArray(checkpoints)
           exists == /\ IsSome(cpId)
                     /\ ~thrown
                     /\ IsSome(findById(checkpoints, Get(cpId)))
       IN /\ initialScanId = IF exists THEN cpId ELSE None
          /\ currentView = IF thrown THEN "error"
                           ELSE IF exists THEN "scanner" ELSE "dashboard"
          /\ autoScan = IF exists
                        THEN Some([checkpointId |-> Get(cpId),
                                   checkpoints |-> checkpoints,
                                   elapsed |-> 0, live |-> TRUE])
                        ELSE None
          /\ hasAutoScanned = exists
          /\ camera = IF exists THEN startCamera(noCamera) ELSE noCamera
          /\ alertMsg = IF IsSome(cpId) /\ ~thrown /\ ~exists
                        THEN "Error: Checkpoint ID not found in system."
                        ELSE ""
    /\ processing = FALSE
    /\ pendingLog = None
    /\ noteText = ""
    /\ hasPhoto = FALSE
    /\ selectedOfficerId = ""
    /\ attempts = <<>>
    /\ pushes = [k \in PushKinds |-> 0]
    /\ settleTimers = <<>>
    /\ clock = Epoch
    /\ scans = 0
    /\ edits = 0

\* The first start: localStorage holds neither key.
Init ==
    \E url \in BOOLEAN, cpId \in DeepLinks : startup(None, None, cpId, url)

\* A start with whatever localStorage may hold.
InitStorage ==
    \E savedCheckpoints \in SavedCheckpoints, savedOfficers \in SavedOfficers,
       url \in BOOLEAN, cpId \in DeepLinks :
          startup(savedCheckpoints, savedOfficers, cpId, url)

----------------------------------------------------------------------------
\* Navigation (App).

\* alert() blocks the event loop: no handler, timer callback or promise
\* continuation runs while an alert is on screen.
idle == alertMsg = ""

\* A Scanner instance mounts: the useState initial values, then the auto-scan
\* effect, which with an initialCheckpointId sets hasAutoScanned and arms its
\* 500 ms timer in the closure of this first render. One auto-scan timer is
\* followed at a time.
scannerMount ==
    /\ processing' = FALSE
    /\ pendingLog' = None
    /\ noteText' = ""
    /\ hasPhoto' = FALSE
    /\ selectedOfficerId' = ""
    /\ hasAutoScanned' = IsSome(initialScanId)
    /\ camera' = startCamera(camera)
    /\ IF IsSome(initialScanId)
       THEN /\ autoScan = None
            /\ autoScan' = Some([checkpointId |-> Get(initialScanId),
                                 checkpoints |-> checkpoints,
                                 elapsed |-> 0, live |-> TRUE])
       ELSE UNCHANGED autoScan

\* "Scan Checkpoint": setCurrentView('scanner') mounts a Scanner.
openScanner ==
    /\ idle
    /\ currentView = "dashboard"
    /\ currentView' = "scanner"
    /\ scannerMount
    /\ UNCHANGED <<logs, checkpoints, officers, persisted, isDefault, initialScanId, isSyncing, scriptUrl,
                   attempts, pulls, pushes, settleTimers, clock, alertMsg,
                   scans, edits>>

\* The "Dashboard" button of the footer (and the logo of the header) while the
\* scanner is shown: setCurrentView('dashboard') and nothing else. The Scanner
\* overlay covers them, so they are reached by keyboard focus only.
footerDashboard ==
    /\ idle
    /\ currentView = "scanner"
    /\ currentView' = "dashboard"
    /\ scannerUnmount
    /\ UNCHANGED <<logs, checkpoints, officers, persisted, isDefault, initialScanId, isSyncing, scriptUrl,
                   pulls, pushes, settleTimers, clock, alertMsg, scans, edits>>

openAdminSetup ==
    /\ idle
    /\ currentView = "dashboard"
    /\ currentView' = "admin-setup"
    /\ UNCHANGED <<logs, checkpoints, officers, persisted, isDefault, initialScanId, isSyncing, scriptUrl,
                   scannerVars, attempts, autoScan, pulls, pushes, settleTimers, clock, camera,
                   alertMsg, scans, edits>>

\* The scanner or the admin setup is opened while checkpoints is not an array:
\* both views render checkpoints.map(...), the render throws, and the
\* ErrorBoundary of index.tsx replaces the App by its "System Error" page.
renderThrows ==
    /\ idle
    /\ currentView = "dashboard"
    /\ ~isArray(checkpoints)
    /\ currentView' = "error"
    /\ UNCHANGED <<logs, checkpoints, officers, persisted, isDefault, initialScanId,
                   isSyncing, scriptUrl, scannerVars, attempts, autoScan, pulls, pushes,
                   settleTimers, clock, camera, alertMsg, scans, edits>>

\* onBack of AdminQrSetup
onBack ==
    /\ idle
    /\ currentView = "admin-setup"
    /\ currentView' = "dashboard"
    /\ UNCHANGED <<logs, checkpoints, officers, persisted, isDefault, initialScanId, isSyncing, scriptUrl,
                   scannerVars, attempts, autoScan, pulls, pushes, settleTimers, clock, camera,
                   alertMsg, scans, edits>>

\* The Close button of the camera view.
handleCancelScan ==
    /\ idle
    /\ currentView = "scanner"
    /\ pendingLog = None
    /\ initialScanId' = None
    /\ currentView' = "dashboard"
    /\ scannerUnmount
    /\ UNCHANGED <<logs, checkpoints, officers, persisted, isDefault, isSyncing, scriptUrl, pulls, pushes,
                   settleTimers, clock, alertMsg, scans, edits>>

----------------------------------------------------------------------------
\* Scanner: a verification attempt.

\* handleSimulatedScan up to its await, with the checkpoints of the closure that
\* runs it. An unknown id throws before the location is requested, and the catch
\* block runs in the same turn.
\* A plausible slip: the lookup result is not tested and the location is requested.
startScanNoLookup(closureCheckpoints, checkpointId) ==
    LET targetCheckpoint == findById(closureCheckpoints, checkpointId)
    IN /\ processing' = TRUE
       /\ attempts' = Append(attempts,
                             [targetCheckpoint |-> IF IsSome(targetCheckpoint)
                                                   THEN Get(targetCheckpoint)
                                                   ELSE closureCheckpoints[1],
                              elapsed |-> 0, live |-> TRUE, settled |-> FALSE])
       /\ UNCHANGED <<hasAutoScanned, alertMsg>>

startScan(closureCheckpoints, checkpointId) ==
    LET targetCheckpoint == findById(closureCheckpoints, checkpointId)
    IN IF IsSome(targetCheckpoint)
       THEN /\ processing' = TRUE
            /\ attempts' = Append(attempts, [targetCheckpoint |-> Get(targetCheckpoint),
                                             elapsed |-> 0, live |-> TRUE,
                                             settled |-> FALSE])
            /\ UNCHANGED <<hasAutoScanned, alertMsg>>
       ELSE /\ processing' = FALSE
            /\ hasAutoScanned' = TRUE
            /\ alertMsg' = "Error: Unknown QR Code. Checkpoint ID not found in system."
            /\ UNCHANGED attempts

\* A simulation button: rendered in the camera view for every checkpoint of the
\* registry, disabled while processing.
handleSimulatedScan(checkpointId) ==
    /\ idle
    /\ currentView = "scanner"
    /\ pendingLog = None
    /\ ~processing
    /\ checkpointId \in idsOf(checkpoints)
    /\ Len(attempts) < MaxAttempts
    /\ scans' = scans + 1
    /\ startScan(checkpoints, checkpointId)
    /\ UNCHANGED <<appVars, scriptUrl, pendingLog, noteText, hasPhoto, selectedOfficerId,
                   autoScan, pulls, pushes, settleTimers, clock, camera, edits>>

\* The auto-scan timer fires: if (mountedRef.current) handleSimulatedScan(id),
\* in the closure of the render that armed it.
autoScanFire ==
    /\ idle
    /\ IsSome(autoScan)
    /\ Get(autoScan).elapsed >= AutoScanDelay
    /\ autoScan' = None
    /\ IF Get(autoScan).live
       THEN /\ Len(attempts) < MaxAttempts
            /\ scans' = scans + 1
            /\ startScan(Get(autoScan).checkpoints, Get(autoScan).checkpointId)
       ELSE UNCHANGED <<processing, attempts, hasAutoScanned, alertMsg, scans>>
    /\ UNCHANGED <<appVars, scriptUrl, pendingLog, noteText, hasPhoto, selectedOfficerId,
                   pulls, pushes, settleTimers, clock, camera, edits>>

\* A plausible slip: the try block does not look at mountedRef.
scanTryUnmounted(i, currentLocation, currentMinutes) ==
    LET draft == draftLog(attempts[i].targetCheckpoint, currentLocation,
                          currentMinutes, clock)
    IN /\ processing' = FALSE
       /\ pendingLog' = Some(draft)
       /\ noteText' = draft.note
       /\ hasPhoto' = FALSE
       /\ selectedOfficerId' = ""
       /\ UNCHANGED hasAutoScanned

\* The rest of the try block, for the reading that won the race: nothing
\* happens once mountedRef.current is false.
scanTry(i, currentLocation, currentMinutes) ==
    IF attempts[i].live
    THEN LET draft == draftLog(attempts[i].targetCheckpoint, currentLocation,
                               currentMinutes, clock)
         IN /\ processing' = FALSE
            /\ pendingLog' = Some(draft)
            /\ noteText' = draft.note
            /\ hasPhoto' = FALSE
            /\ selectedOfficerId' = ""
            /\ UNCHANGED hasAutoScanned
    ELSE UNCHANGED scannerVars

\* A plausible slip: the reading is used although the timeout has settled the race.
scanResolveLate(i, currentLocation, currentMinutes) ==
    /\ idle
    /\ i \in DOMAIN attempts
    /\ attempts' = removeAt(attempts, i)
    /\ scanTry(i, currentLocation, currentMinutes)
    /\ UNCHANGED <<appVars, scriptUrl, autoScan, pulls, pushes, settleTimers, clock, camera,
                   alertMsg, scans, edits>>

\* The location promise resolves with a reading. It wins the race unless the
\* timeout has settled it, and then the reading is dropped.
scanResolve(i, currentLocation, currentMinutes) ==
    /\ idle
    /\ i \in DOMAIN attempts
    /\ attempts' = removeAt(attempts, i)
    /\ IF attempts[i].settled
       THEN UNCHANGED scannerVars
       ELSE scanTry(i, currentLocation, currentMinutes)
    /\ UNCHANGED <<appVars, scriptUrl, autoScan, pulls, pushes, settleTimers, clock, camera,
                   alertMsg, scans, edits>>

\* A plausible slip: the catch block also clears the scan records.
scanCatchClearing(i, message) ==
    /\ IF attempts[i].live
       THEN /\ processing' = FALSE
            /\ hasAutoScanned' = TRUE
            /\ alertMsg' = message
            /\ logs' = <<>>
            /\ UNCHANGED <<pendingLog, noteText, hasPhoto, selectedOfficerId>>
       ELSE UNCHANGED <<scannerVars, alertMsg, logs>>
    /\ UNCHANGED <<currentView, checkpoints, officers, persisted, isDefault, initialScanId, isSyncing,
                   scriptUrl, autoScan, pulls, pushes, settleTimers, clock, camera, scans, edits>>

\* A plausible slip: the catch block reports the error and leaves processing set.
scanCatchStillProcessing(i, message) ==
    /\ IF attempts[i].live
       THEN /\ hasAutoScanned' = TRUE
            /\ alertMsg' = message
            /\ UNCHANGED <<processing, pendingLog, noteText, hasPhoto, selectedOfficerId>>
       ELSE UNCHANGED <<scannerVars, alertMsg>>
    /\ UNCHANGED <<appVars, scriptUrl, autoScan, pulls, pushes, settleTimers, clock, camera,
                   scans, edits>>

\* The catch block of handleSimulatedScan after the await.
scanCatch(i, message) ==
    /\ IF attempts[i].live
       THEN /\ processing' = FALSE
            /\ hasAutoScanned' = TRUE
            /\ alertMsg' = message
            /\ UNCHANGED <<pendingLog, noteText, hasPhoto, selectedOfficerId>>
       ELSE UNCHANGED <<scannerVars, alertMsg>>
    /\ UNCHANGED <<appVars, scriptUrl, autoScan, pulls, pushes, settleTimers, clock, camera,
                   scans, edits>>

\* The location promise rejects (permission denied, position unavailable, its
\* own 15 s timeout): the error is no Error instance. After the race is settled
\* the rejection is dropped.
scanSensorError(i) ==
    /\ idle
    /\ i \in DOMAIN attempts
    /\ attempts' = removeAt(attempts, i)
    /\ IF attempts[i].settled
       THEN UNCHANGED <<appVars, scriptUrl, scannerVars, autoScan, pulls, pushes,
                        settleTimers, clock, camera, alertMsg, scans, edits>>
       ELSE scanCatch(i, "Error: Location verification failed.")

\* The 10 s timer wins the race; the location request stays pending.
scanTimeout(i) ==
    /\ idle
    /\ i \in DOMAIN attempts
    /\ ~attempts[i].settled
    /\ attempts[i].elapsed >= GpsTimeout
    /\ attempts' = [attempts EXCEPT ![i].settled = TRUE]
    /\ scanCatch(i, "Error: GPS timed out. Move to open sky.")

----------------------------------------------------------------------------
\* Scanner: the report modal (rendered while pendingLog is set).

\* A plausible slip: Cancel only marks the auto-scan as done and keeps the draft.
cancelReportKeepingDraft ==
    /\ idle
    /\ currentView = "scanner"
    /\ IsSome(pendingLog)
    /\ ~hasAutoScanned
    /\ hasAutoScanned' = TRUE
    /\ UNCHANGED <<appVars, scriptUrl, processing, pendingLog, noteText, hasPhoto,
                   selectedOfficerId, attempts, autoScan, pulls, pushes, settleTimers,
                   clock, camera, alertMsg, scans, edits>>

\* Cancel: setPendingLog(null); setHasAutoScanned(true)
cancelReport ==
    /\ idle
    /\ currentView = "scanner"
    /\ IsSome(pendingLog)
    /\ pendingLog' = None
    /\ hasAutoScanned' = TRUE
    /\ UNCHANGED <<appVars, scriptUrl, processing, noteText, hasPhoto, selectedOfficerId,
                   attempts, autoScan, pulls, pushes, settleTimers, clock, camera, alertMsg,
                   scans, edits>>

\* The officer <select>: one option per officer of the roster.
setSelectedOfficerId(id) ==
    /\ idle
    /\ currentView = "scanner"
    /\ IsSome(pendingLog)
    /\ id \in idsOf(officers)
    /\ selectedOfficerId' = id
    /\ UNCHANGED <<appVars, scriptUrl, processing, hasAutoScanned, pendingLog, noteText,
                   hasPhoto, attempts, autoScan, pulls, pushes, settleTimers, clock, camera,
                   alertMsg, scans, edits>>

setNoteText(text) ==
    /\ idle
    /\ currentView = "scanner"
    /\ IsSome(pendingLog)
    /\ noteText' = text
    /\ UNCHANGED <<appVars, scriptUrl, processing, hasAutoScanned, pendingLog, hasPhoto,
                   selectedOfficerId, attempts, autoScan, pulls, pushes, settleTimers,
                   clock, camera, alertMsg, scans, edits>>

setHasPhoto ==
    /\ idle
    /\ currentView = "scanner"
    /\ IsSome(pendingLog)
    /\ hasPhoto' = ~hasPhoto
    /\ UNCHANGED <<appVars, scriptUrl, processing, hasAutoScanned, pendingLog, noteText,
                   selectedOfficerId, attempts, autoScan, pulls, pushes, settleTimers,
                   clock, camera, alertMsg, scans, edits>>


----------------------------------------------------------------------------
\* Confirmation: Scanner.handleFinalSubmit and App.handleScanComplete.

\* const officerDisplayName = officer ? `${officer.name} (${officer.id})` : selectedOfficerId
officerDisplayName(roster, id) ==
    LET officer == findById(roster, id)
    IN IF IsSome(officer)
       THEN Get(officer).name \o " (" \o Get(officer).id \o ")"
       ELSE id

\* A plausible slip: the diagnosis of the draft is kept and the user's text is lost.
finalLogKeepNote(draft) ==
    [draft EXCEPT !.officerId = officerDisplayName(officers, selectedOfficerId),
                  !.evidencePhotoUrl = IF hasPhoto THEN Some("mock_photo_url.jpg")
                                       ELSE None]

\* const finalLog: ScanLog = { ...pendingLog, officerId, note, evidencePhotoUrl }
finalLog(draft) ==
    [draft EXCEPT !.officerId = officerDisplayName(officers, selectedOfficerId),
                  !.note = noteText,
                  !.evidencePhotoUrl = IF hasPhoto THEN Some("mock_photo_url.jpg")
                                       ELSE None]

\* A plausible slip: the view is left to the push's continuation, so the
\* scanner and its draft stay on screen after the record is stored.
handleScanCompleteKeepView(log) ==
    /\ logs' = Append(logs, log)
    /\ IF scriptUrl
       THEN sendToSheet("LOG") /\ UNCHANGED settleTimers
       ELSE settleTimers' = Append(settleTimers, 0) /\ UNCHANGED pushes
    /\ UNCHANGED <<initialScanId, currentView, scannerVars, attempts, autoScan, camera>>

\* A plausible slip: the record is stored only once the push has returned.
handleScanCompleteAwaitPush(log) ==
    /\ IF scriptUrl
       THEN sendToSheet("LOG") /\ UNCHANGED <<settleTimers, logs>>
       ELSE /\ settleTimers' = Append(settleTimers, 0)
            /\ logs' = Append(logs, log)
            /\ UNCHANGED pushes
    /\ initialScanId' = None
    /\ currentView' = "dashboard"
    /\ scannerUnmount

\* A plausible slip: setLogs([log]) instead of the functional append.
handleScanCompleteReplace(log) ==
    /\ logs' = <<log>>
    /\ IF scriptUrl
       THEN sendToSheet("LOG") /\ UNCHANGED settleTimers
       ELSE settleTimers' = Append(settleTimers, 0) /\ UNCHANGED pushes
    /\ initialScanId' = None
    /\ currentView' = "dashboard"
    /\ scannerUnmount

\* App.handleScanComplete: the record is appended, the push is started and not
\* awaited, and the view goes back to the dashboard, which unmounts the Scanner.
handleScanComplete(log) ==
    /\ logs' = Append(logs, log)
    /\ IF scriptUrl
       THEN sendToSheet("LOG") /\ UNCHANGED settleTimers
       ELSE settleTimers' = Append(settleTimers, 0) /\ UNCHANGED pushes
    /\ initialScanId' = None
    /\ currentView' = "dashboard"
    /\ scannerUnmount

\* if (!selectedOfficerId) { alert(...); return; }
submitRejected ==
    /\ alertMsg' = "Please select your name/ID from the list."
    /\ UNCHANGED <<appVars, scannerVars, attempts, autoScan, pushes, settleTimers, camera>>

\* A plausible slip: the officer check is missing.
handleFinalSubmitUnchecked ==
    /\ idle
    /\ currentView = "scanner"
    /\ IsSome(pendingLog)
    /\ Len(logs) < MaxLogs
    /\ pushesInFlight < MaxPushes
    /\ Len(settleTimers) < MaxTimers
    /\ handleScanComplete(finalLog(Get(pendingLog)))
    /\ UNCHANGED <<checkpoints, officers, persisted, isDefault, isSyncing, alertMsg>>
    /\ UNCHANGED <<scriptUrl, pulls, clock, scans, edits>>

\* Submit Report
handleFinalSubmit ==
    /\ idle
    /\ currentView = "scanner"
    /\ IsSome(pendingLog)
    /\ IF selectedOfficerId = ""
       THEN submitRejected
       ELSE /\ Len(logs) < MaxLogs
            /\ pushesInFlight < MaxPushes
            /\ Len(settleTimers) < MaxTimers
            /\ handleScanComplete(finalLog(Get(pendingLog)))
            /\ UNCHANGED <<checkpoints, officers, persisted, isDefault, isSyncing, alertMsg>>
    /\ UNCHANGED <<scriptUrl, pulls, clock, scans, edits>>

----------------------------------------------------------------------------
\* Reconciliation: pushes and pulls.

\* A plausible slip: every continuation of a push pulls at once.
afterPushNoDelay(kind) ==
    /\ scriptUrl => pulls < MaxPulls
    /\ loadCloudData
    /\ UNCHANGED settleTimers

\* What the caller of a push does when sendToSheet's promise settles:
\* handleScanComplete arms the 2 s timer, the admin handlers call loadCloudData().
afterPush(kind) ==
    IF kind = "LOG"
    THEN /\ Len(settleTimers) < MaxTimers
         /\ settleTimers' = Append(settleTimers, 0)
         /\ UNCHANGED <<pulls, isSyncing>>
    ELSE /\ scriptUrl => pulls < MaxPulls
         /\ loadCloudData
         /\ UNCHANGED settleTimers

\* The POST of sendToSheet resolves or rejects; either way its promise resolves.
pushReturn(kind) ==
    /\ idle
    /\ pushes[kind] > 0
    /\ pushes' = [pushes EXCEPT ![kind] = @ - 1]
    /\ afterPush(kind)
    /\ UNCHANGED <<currentView, logs, checkpoints, officers, persisted, isDefault, initialScanId, scriptUrl,
                   scannerVars, attempts, autoScan, clock, camera, alertMsg, scans, edits>>

\* The 2 s timer of handleScanComplete fires: loadCloudData()
settleFire(i) ==
    /\ idle
    /\ i \in DOMAIN settleTimers
    /\ settleTimers[i] >= SettleDelay
    /\ settleTimers' = removeAt(settleTimers, i)
    /\ scriptUrl => pulls < MaxPulls
    /\ loadCloudData
    /\ UNCHANGED <<currentView, logs, checkpoints, officers, persisted, isDefault, initialScanId, scriptUrl,
                   scannerVars, attempts, autoScan, pushes, clock, camera, alertMsg, scans, edits>>

\* The refresh button of the Dashboard, disabled while isSyncing.
onRefresh ==
    /\ idle
    /\ currentView = "dashboard"
    /\ ~isSyncing
    /\ scriptUrl
    /\ pulls < MaxPulls
    /\ loadCloudData
    /\ UNCHANGED <<currentView, logs, checkpoints, officers, persisted, isDefault, initialScanId, scriptUrl,
                   scannerVars, attempts, autoScan, pushes, settleTimers, clock, camera, alertMsg, scans, edits>>

\* A plausible slip: the remote collection replaces the local one even when empty.
syncAlways(local, remote) == remote

\* A plausible slip: the remote entries are merged into the local ones.
syncMerge(local, remote) == IF Len(remote) > 0 THEN local \o remote ELSE local

\* if (cloudData.x.length > 0) setX(cloudData.x)
sync(local, remote) == IF Len(remote) > 0 THEN remote ELSE local

\* useEffect(() => localStorage.setItem(key, JSON.stringify(x)), [x]) for both
\* collections, after the render that follows a handler: a collection whose
\* state is another reference than before (setCheckpoints, setOfficers) is
\* written to its key. store is localStorage as the handler left it.
persistenceEffects(store, checkpointsSet, officersSet) ==
    /\ persisted' =
          [securepatrol_checkpoints |->
              IF checkpointsSet THEN Some(stringifyCheckpoints(checkpoints'))
              ELSE store.securepatrol_checkpoints,
           securepatrol_officers |->
              IF officersSet THEN Some(stringifyOfficers(officers'))
              ELSE store.securepatrol_officers]
    /\ isDefault' = [checkpoints |-> IF checkpointsSet THEN FALSE ELSE isDefault.checkpoints,
                     officers |-> IF officersSet THEN FALSE ELSE isDefault.officers]

\* A plausible slip: a response that arrives after another pull has completed
\* is taken for stale and dropped.
pullCompleteFirstWins(ok, data) ==
    /\ idle
    /\ pulls > 0
    /\ pulls' = pulls - 1
    /\ LET cloudData == fetchAllDataFromSheet(ok, data)
       IN IF isSyncing
          THEN /\ logs' = sync(logs, cloudData.logs)
               /\ officers' = sync(officers, cloudData.officers)
               /\ checkpoints' = sync(checkpoints, cloudData.checkpoints)
               /\ persistenceEffects(persisted, Len(cloudData.checkpoints) > 0,
                                     Len(cloudData.officers) > 0)
          ELSE UNCHANGED <<logs, officers, checkpoints, persisted, isDefault>>
    /\ isSyncing' = FALSE
    /\ UNCHANGED <<currentView, initialScanId, scriptUrl, scannerVars, attempts, autoScan,
                   pushes, settleTimers, clock, camera, alertMsg, scans, edits>>

\* loadCloudData after its await: the three collections are synced, isSyncing is
\* cleared in the finally block.
pullComplete(ok, data) ==
    /\ idle
    /\ pulls > 0
    /\ pulls' = pulls - 1
    /\ LET cloudData == fetchAllDataFromSheet(ok, data)
       IN /\ logs' = sync(logs, cloudData.logs)
          /\ officers' = sync(officers, cloudData.officers)
          /\ checkpoints' = sync(checkpoints, cloudData.checkpoints)
          /\ persistenceEffects(persisted, Len(cloudData.checkpoints) > 0,
                                Len(cloudData.officers) > 0)
    /\ isSyncing' = FALSE
    /\ UNCHANGED <<currentView, initialScanId, scriptUrl, scannerVars, attempts, autoScan,
                   pushes, settleTimers, clock, camera, alertMsg, scans, edits>>

----------------------------------------------------------------------------
\* Administration (AdminQrSetup and the App handlers it calls).

\* handleSubmitCheckpoint: the checkpoint built from the form.
newCheckpoint(scheduleType) ==
    [id |-> "cp-" \o ToString(clock), name |-> "Gate B",
     location |-> Coordinates(0, None), allowedRadiusMeters |-> 50,
     schedule |-> Some(Schedule(scheduleType,
                       IF scheduleType = "FIXED_TIME" THEN Some(<< <<8, 0>> >>) ELSE None,
                       None, Some(AdminTolerance)))]

\* An admin handler's push: awaited, then loadCloudData(). Without a script URL
\* the await resolves at once and loadCloudData returns at its first line.
adminPush(kind) ==
    IF scriptUrl
    THEN pushesInFlight < MaxPushes /\ sendToSheet(kind)
    ELSE UNCHANGED pushes

handleAddCheckpoint(cp) ==
    /\ idle
    /\ currentView = "admin-setup"
    /\ edits < MaxEdits
    /\ edits' = edits + 1
    /\ Len(checkpoints) < MaxRegistry
    /\ cp.id \notin idsOf(checkpoints)
    /\ checkpoints' = Append(checkpoints, cp)
    /\ adminPush("ADD_CHECKPOINT")
    /\ UNCHANGED <<currentView, logs, officers, initialScanId, isSyncing, scriptUrl,
                   scannerVars, attempts, autoScan, pulls, settleTimers, clock, camera, alertMsg,
                   scans>>
    /\ persistenceEffects(persisted, TRUE, FALSE)

handleAddOfficer(newOfficer) ==
    /\ idle
    /\ currentView = "admin-setup"
    /\ edits < MaxEdits
    /\ edits' = edits + 1
    /\ Len(officers) < MaxRegistry
    /\ newOfficer.id \notin idsOf(officers)
    /\ officers' = Append(officers, newOfficer)
    /\ adminPush("ADD_OFFICER")
    /\ UNCHANGED <<currentView, logs, checkpoints, initialScanId, isSyncing, scriptUrl,
                   scannerVars, attempts, autoScan, pulls, settleTimers, clock, camera, alertMsg,
                   scans>>
    /\ persistenceEffects(persisted, FALSE, TRUE)

\* The confirm() dialog is answered with OK.
handleRemoveOfficer(id) ==
    /\ idle
    /\ currentView = "admin-setup"
    /\ edits < MaxEdits
    /\ edits' = edits + 1
    /\ id \in idsOf(officers)
    /\ officers' = filterOutId(officers, id)
    /\ adminPush("REMOVE_OFFICER")
    /\ UNCHANGED <<currentView, logs, checkpoints, initialScanId, isSyncing, scriptUrl,
                   scannerVars, attempts, autoScan, pulls, settleTimers, clock, camera, alertMsg,
                   scans>>
    /\ persistenceEffects(persisted, FALSE, TRUE)

\* The confirm() dialog is answered with OK. Both states are set to the DEFAULT_
\* constants and both keys are removed; after the render a persistence effect
\* runs, and writes its key again, only for a state that was not that constant
\* already (a state set to the value it has causes no effect).
handleResetData ==
    /\ idle
    /\ currentView = "admin-setup"
    /\ edits < MaxEdits
    /\ edits' = edits + 1
    /\ checkpoints' = DEFAULT_CHECKPOINTS
    /\ officers' = DEFAULT_OFFICERS
    /\ persisted' =
          [securepatrol_checkpoints |->
              IF isDefault.checkpoints THEN None
              ELSE Some(stringifyCheckpoints(DEFAULT_CHECKPOINTS)),
           securepatrol_officers |->
              IF isDefault.officers THEN None
              ELSE Some(stringifyOfficers(DEFAULT_OFFICERS))]
    /\ isDefault' = [checkpoints |-> TRUE, officers |-> TRUE]
    /\ UNCHANGED <<currentView, logs, initialScanId, isSyncing, scriptUrl, scannerVars,
                   attempts, autoScan, pulls, pushes, settleTimers, clock, camera, alertMsg,
                   scans>>

\* AdminQrSetup.handleFileImport with App.handleImportCheckpoints: a parsed
\* non-empty array whose first entry has an id replaces the registry; any other
\* file is refused. Both outcomes end in an alert.
handleFileImport(parsed) ==
    /\ idle
    /\ currentView = "admin-setup"
    /\ edits < MaxEdits
    /\ edits' = edits + 1
    /\ IF Len(parsed) > 0
       THEN /\ checkpoints' = parsed
            /\ alertMsg' = "Successfully imported " \o ToString(Len(parsed)) \o " checkpoints!"
            /\ persistenceEffects(persisted, TRUE, FALSE)
       ELSE /\ alertMsg' = "Invalid file format."
            /\ UNCHANGED <<checkpoints, persisted, isDefault>>
    /\ UNCHANGED <<currentView, logs, officers, initialScanId, isSyncing, scriptUrl,
                   scannerVars, attempts, autoScan, pulls, pushes, settleTimers, clock,
                   camera, scans>>

\* handleUpdateScriptUrl: setScriptUrl(url), url empty or not.
handleUpdateScriptUrl(url) ==
    /\ idle
    /\ currentView = "admin-setup"
    /\ edits < MaxEdits
    /\ edits' = edits + 1
    /\ url # scriptUrl
    /\ scriptUrl' = url
    /\ UNCHANGED <<appVars, scannerVars, attempts, autoScan, pulls, pushes, settleTimers,
                   clock, camera, alertMsg, scans>>

----------------------------------------------------------------------------
\* Scanner: the camera.

cameraVars == <<appVars, scriptUrl, scannerVars, attempts, autoScan, pulls, pushes,
                settleTimers, clock, alertMsg, scans, edits>>

\* getUserMedia resolves for the mounted Scanner: streamRef.current = stream.
getUserMediaResolve ==
    /\ idle
    /\ IsSome(camera.call)
    /\ camera' = [camera EXCEPT !.call = None, !.streamRef = TRUE, !.active = @ + 1]
    /\ UNCHANGED cameraVars

\* getUserMedia rejects for the mounted Scanner: the environment request falls
\* back to { video: true }; the fallback request sets cameraError.
getUserMediaReject ==
    /\ idle
    /\ IsSome(camera.call)
    /\ camera' = IF Get(camera.call) = "environment"
                 THEN [camera EXCEPT !.call = Some("fallback")]
                 ELSE [camera EXCEPT !.call = None, !.cameraError = TRUE]
    /\ UNCHANGED cameraVars

\* getUserMedia settles for an unmounted Scanner: a stream is stopped in the
\* continuation that receives it, a rejection returns.
getUserMediaLate(phase, resolved) ==
    /\ idle
    /\ phase \in camera.dead
    /\ camera' = [camera EXCEPT !.dead = @ \ {phase},
                                !.active = IF resolved THEN (@ + 1) - 1 ELSE @]
    /\ UNCHANGED cameraVars

\* The "Retry Camera" button, shown in the camera view while cameraError is set.
retryCamera ==
    /\ idle
    /\ currentView = "scanner"
    /\ pendingLog = None
    /\ camera.cameraError
    /\ camera' = startCamera(camera)
    /\ UNCHANGED cameraVars

----------------------------------------------------------------------------
\* Time.

TimeSteps == {AutoScanDelay, SettleDelay, GpsTimeout}

\* d milliseconds pass: Date.now() moves on and every pending timer ages.
advance(d) ==
    /\ clock < Epoch + MaxClock
    /\ clock' = clock + 1
    /\ attempts' = [i \in DOMAIN attempts |->
                      [attempts[i] EXCEPT !.elapsed = Min(@ + d, GpsTimeout)]]
    /\ autoScan' = IF IsSome(autoScan)
                   THEN Some([Get(autoScan) EXCEPT !.elapsed = Min(@ + d, AutoScanDelay)])
                   ELSE None
    /\ settleTimers' = [i \in DOMAIN settleTimers |-> Min(settleTimers[i] + d, SettleDelay)]
    /\ UNCHANGED <<appVars, scriptUrl, scannerVars, pulls, pushes, alertMsg, camera,
                   scans, edits>>

\* alert() blocks the page until it is dismissed.
dismissAlert ==
    /\ alertMsg # ""
    /\ alertMsg' = ""
    /\ UNCHANGED <<appVars, scriptUrl, scannerVars, attempts, autoScan, pulls, pushes,
                   settleTimers, clock, camera, scans, edits>>

----------------------------------------------------------------------------

\* The turns of the event loop, by the part of the program they belong to.

\* The Scanner and the confirmation of its draft.
turnScan ==
    \/ openScanner
    \/ handleCancelScan
    \/ scans < MaxScans /\ \E id \in idsOf(checkpoints) : handleSimulatedScan(id)
    \/ scans < MaxScans /\ autoScanFire
    \/ \E i \in DOMAIN attempts, loc \in Readings, m \in NowMinutes : scanResolve(i, loc, m)
    \/ \E i \in DOMAIN attempts : scanSensorError(i)
    \/ \E i \in DOMAIN attempts : scanTimeout(i)
    \/ cancelReport
    \/ \E id \in idsOf(officers) : setSelectedOfficerId(id)
    \/ \E text \in UserNotes : setNoteText(text)
    \/ setHasPhoto
    \/ handleFinalSubmit

\* The reconciliation client.
turnSync ==
    \/ \E kind \in PushKinds : pushReturn(kind)
    \/ onRefresh
    \/ \E ok \in BOOLEAN, data \in SheetData : pullComplete(ok, data)

\* The admin setup view.
turnAdmin ==
    \/ openAdminSetup
    \/ onBack
    \/ \E type \in NewCheckpointTypes : handleAddCheckpoint(newCheckpoint(type))
    \/ \E o \in NewOfficers : handleAddOfficer(o)
    \/ \E id \in idsOf(officers) : handleRemoveOfficer(id)
    \/ handleResetData
    \/ \E url \in BOOLEAN : handleUpdateScriptUrl(url)

\* Patrol: scanning, confirming and syncing.
Next ==
    \/ turnScan
    \/ turnSync
    \/ \E i \in DOMAIN settleTimers : settleFire(i)
    \/ dismissAlert
    \/ \E d \in TimeSteps : advance(d)

Spec == Init /\ [][Next]_vars

\* A scanner session, opened by a deep link or by hand, and the one pull of
\* the initial load: attempts may overlap and the view may be left by the footer.
NextScanner ==
    \/ openScanner
    \/ handleCancelScan
    \/ footerDashboard
    \/ scans < MaxScans /\ \E id \in idsOf(checkpoints) : handleSimulatedScan(id)
    \/ autoScanFire
    \/ \E i \in DOMAIN attempts, loc \in Readings, m \in NowMinutes : scanResolve(i, loc, m)
    \/ \E i \in DOMAIN attempts : scanSensorError(i)
    \/ \E i \in DOMAIN attempts : scanTimeout(i)
    \/ cancelReport
    \/ \E id \in idsOf(officers) : setSelectedOfficerId(id)
    \/ handleFinalSubmit
    \/ \E ok \in BOOLEAN, data \in SheetData : pullComplete(ok, data)
    \/ dismissAlert
    \/ \E d \in TimeSteps : advance(d)

SpecScanner == Init /\ [][NextScanner]_vars

\* Administration: editing the registries, the script URL, and syncing.
NextAdmin ==
    \/ turnAdmin
    \/ turnSync
    \/ dismissAlert
    \/ \E d \in TimeSteps : advance(d)

SpecAdmin == Init /\ [][NextAdmin]_vars

\* The registries and localStorage: the App starts with whatever localStorage
\* holds, then the registries are edited, imported, reset and pulled. A view
\* that lists the checkpoints renders only when checkpoints is an array, and
\* no response is processed once the ErrorBoundary has replaced the App.
NextStorage ==
    \/ isArray(checkpoints) /\ openAdminSetup
    \/ isArray(checkpoints) /\ openScanner
    \/ renderThrows
    \/ handleCancelScan
    \/ onBack
    \/ \E type \in NewCheckpointTypes : handleAddCheckpoint(newCheckpoint(type))
    \/ \E o \in NewOfficers : handleAddOfficer(o)
    \/ \E id \in idsOf(officers) : handleRemoveOfficer(id)
    \/ handleResetData
    \/ \E parsed \in ImportFiles : handleFileImport(parsed)
    \/ \E kind \in PushKinds : pushReturn(kind)
    \/ currentView # "error" /\ \E ok \in BOOLEAN, data \in SheetData : pullComplete(ok, data)
    \/ dismissAlert

SpecStorage == InitStorage /\ [][NextStorage]_vars

\* A patrol that scans and confirms one checkpoint after another while pulls
\* complete. The sensor is asked for a fresh fix (maximumAge: 0), which takes
\* time: a reading arrives only after the clock has moved on.
NextRecords ==
    \/ openScanner
    \/ scans < MaxRecordScans /\ \E id \in idsOf(checkpoints) : handleSimulatedScan(id)
    \/ \E i \in DOMAIN attempts, loc \in Readings, m \in NowMinutes :
          attempts[i].elapsed > 0 /\ scanResolve(i, loc, m)
    \/ \E id \in idsOf(officers) : setSelectedOfficerId(id)
    \/ handleFinalSubmit
    \/ \E kind \in PushKinds : pushReturn(kind)
    \/ \E i \in DOMAIN settleTimers : settleFire(i)
    \/ onRefresh
    \/ \E ok \in BOOLEAN, data \in RecordSheetData : pullComplete(ok, data)
    \/ dismissAlert
    \/ \E d \in TimeSteps : advance(d)

SpecRecords == Init /\ [][NextRecords]_vars

\* The attempts of a scanner session under the scheduling of the browser: a
\* timer that is due fires unless an alert blocks the page.
NextAttempt ==
    \/ openScanner
    \/ handleCancelScan
    \/ scans < MaxScans /\ \E id \in idsOf(checkpoints) : handleSimulatedScan(id)
    \/ autoScanFire
    \/ \E i \in DOMAIN attempts, loc \in Readings, m \in NowMinutes : scanResolve(i, loc, m)
    \/ \E i \in DOMAIN attempts : scanSensorError(i)
    \/ \E i \in DOMAIN attempts : scanTimeout(i)
    \/ cancelReport
    \/ dismissAlert
    \/ \E d \in TimeSteps : advance(d)

SpecAttempt ==
    /\ Init
    /\ [][NextAttempt]_vars
    /\ WF_vars(\E i \in DOMAIN attempts : scanTimeout(i))

\* The camera of the Scanner: mounts, unmounts, drafts and the getUserMedia
\* calls, which settle in any order with them.
NextCamera ==
    \/ openScanner
    \/ handleCancelScan
    \/ footerDashboard
    \/ scans < MaxScans /\ \E id \in idsOf(checkpoints) : handleSimulatedScan(id)
    \/ \E i \in DOMAIN attempts, loc \in Readings, m \in NowMinutes : scanResolve(i, loc, m)
    \/ \E i \in DOMAIN attempts : scanSensorError(i)
    \/ cancelReport
    \/ \E id \in idsOf(officers) : setSelectedOfficerId(id)
    \/ handleFinalSubmit
    \/ getUserMediaResolve
    \/ getUserMediaReject
    \/ \E phase \in CameraPhases, resolved \in BOOLEAN : getUserMediaLate(phase, resolved)
    \/ retryCamera
    \/ dismissAlert

SpecCamera == Init /\ [][NextCamera]_vars

\* Verdicts on an imported registry: the admin imports a configuration file,
\* then checkpoints are scanned.
NextVerdict ==
    \/ openAdminSetup
    \/ onBack
    \/ \E parsed \in ImportFiles : handleFileImport(parsed)
    \/ handleResetData
    \/ openScanner
    \/ handleCancelScan
    \/ scans < MaxScans /\ \E id \in idsOf(checkpoints) : handleSimulatedScan(id)
    \/ \E i \in DOMAIN attempts, loc \in Readings, m \in VerdictMinutes : scanResolve(i, loc, m)
    \/ cancelReport
    \/ dismissAlert

SpecVerdict == Init /\ [][NextVerdict]_vars


----------------------------------------------------------------------------
\* Properties.

IsPrefix(a, b) == Len(a) <= Len(b) /\ SubSeq(b, 1, Len(a)) = a

\* A record of logs that a Scanner draft produced (a pulled record has the
\* placeholder checkpointId "unknown").
isLocalRecord(log) == log.checkpointId # "unknown"

\* The checkpoint of the registry a draft refers to.
registered(draft) == findById(checkpoints, draft.checkpointId)

\* C1. Schedule precedence: whenever an attempt delivers a draft and the time
\* check of its checkpoint fails at the minute of the scan, the draft's status
\* is INVALID_TIME, whatever the reading's distance and accuracy.
C1_SchedulePrecedence ==
    [][\A i \in DOMAIN attempts, loc \in Readings, m \in NowMinutes :
          ( /\ scanResolve(i, loc, m)
            /\ attempts[i].live /\ ~attempts[i].settled
            /\ timeStatus(attempts[i].targetCheckpoint, m) = "INVALID_TIME" )
          => Get(pendingLog').status = "INVALID_TIME"]_vars

\* A draft rejected for its time although the reading is inside the fence of
\* its checkpoint and the accuracy is poor.
C1_Witness ==
    /\ IsSome(pendingLog)
    /\ Get(pendingLog).status = "INVALID_TIME"
    /\ IsSome(registered(Get(pendingLog)))
    /\ Get(pendingLog).distanceFromTarget
          <= Get(registered(Get(pendingLog))).allowedRadiusMeters
    /\ accuracyOf(Get(Get(pendingLog).userLocation)) > PoorAccuracy

\* C2. Sensor-degradation override: whenever the time check passes and the
\* reading reports an accuracy above 100 m, the draft's status is VALID, also
\* when the distance exceeds the allowed radius.
C2_DegradedSensorOverride ==
    [][\A i \in DOMAIN attempts, loc \in Readings, m \in NowMinutes :
          ( /\ scanResolve(i, loc, m)
            /\ attempts[i].live /\ ~attempts[i].settled
            /\ timeStatus(attempts[i].targetCheckpoint, m) = "VALID"
            /\ IsSome(loc.accuracy) /\ Get(loc.accuracy) > PoorAccuracy )
          => Get(pendingLog').status = "VALID"]_vars

\* A VALID draft whose reading is poor and outside the fence of its checkpoint.
C2_Witness ==
    /\ IsSome(pendingLog)
    /\ Get(pendingLog).status = "VALID"
    /\ Get(Get(pendingLog).userLocation).accuracy = Some(150)
    /\ IsSome(registered(Get(pendingLog)))
    /\ Get(pendingLog).distanceFromTarget
          > Get(registered(Get(pendingLog))).allowedRadiusMeters
    /\ Get(pendingLog).distanceFromTarget = 60

\* C3. Geofence: whenever the time check passes, the accuracy is at most 100 m
\* and the distance exceeds the checkpoint's allowed radius, the draft's status
\* is INVALID_LOCATION.
C3_OutsideFence ==
    [][\A i \in DOMAIN attempts, loc \in Readings, m \in NowMinutes :
          ( /\ scanResolve(i, loc, m)
            /\ attempts[i].live /\ ~attempts[i].settled
            /\ timeStatus(attempts[i].targetCheckpoint, m) = "VALID"
            /\ accuracyOf(loc) <= PoorAccuracy
            /\ calculateDistance(loc, attempts[i].targetCheckpoint.location)
                  > attempts[i].targetCheckpoint.allowedRadiusMeters )
          => Get(pendingLog').status = "INVALID_LOCATION"]_vars

\* An INVALID_LOCATION draft: radius 50, accuracy 100, distance 60.
C3_Witness ==
    /\ IsSome(pendingLog)
    /\ Get(pendingLog).status = "INVALID_LOCATION"
    /\ Get(Get(pendingLog).userLocation).accuracy = Some(100)
    /\ Get(pendingLog).distanceFromTarget = 60
    /\ Get(pendingLog).checkpointId = "cp-002"

\* C4. FIXED_TIME evaluation as the claim states it: a scan of a checkpoint
\* with a FIXED_TIME schedule and a configured toleranceMinutes passes the
\* time check exactly when some fixedTimes entry is within toleranceMinutes
\* (inclusive) of the minute of the scan.
C4_FixedTimeWindow ==
    [][\A i \in DOMAIN attempts, loc \in Readings, m \in NowMinutes :
          ( /\ scanResolve(i, loc, m)
            /\ attempts[i].live /\ ~attempts[i].settled
            /\ scheduleChecked(attempts[i].targetCheckpoint)
            /\ IsSome(Get(attempts[i].targetCheckpoint.schedule).toleranceMinutes) )
          => LET schedule == Get(attempts[i].targetCheckpoint.schedule)
                 times == Get(schedule.fixedTimes)
             IN (Get(pendingLog').status # "INVALID_TIME")
                  <=> \E k \in DOMAIN times :
                         Abs(m - targetMinutes(times[k]))
                            <= Get(schedule.toleranceMinutes)]_vars

\* C5. A confirmation with no officer selected changes nothing but the alert:
\* the draft stays, the view stays the scanner, the scan records are unchanged
\* and no push is started.
C5_EmptyOfficerRejected ==
    [][(handleFinalSubmit /\ selectedOfficerId = "")
          => /\ pendingLog' = pendingLog
             /\ currentView' = "scanner"
             /\ logs' = logs
             /\ pushes' = pushes
             /\ settleTimers' = settleTimers]_vars

\* The rejection has happened: its alert is on screen over the kept draft.
C5_Witness ==
    /\ alertMsg = "Please select your name/ID from the list."
    /\ IsSome(pendingLog)
    /\ selectedOfficerId = ""
    /\ currentView = "scanner"

\* C6. A confirmation with an officer selected appends exactly one record, the
\* draft with the officer filled in, and consumes the draft: the Scanner is
\* unmounted in the same turn, so the draft cannot be confirmed a second time.
C6_ExactlyOneRecord ==
    [][(handleFinalSubmit /\ selectedOfficerId # "")
          => /\ Len(logs') = Len(logs) + 1
             /\ IsPrefix(logs, logs')
             /\ logs'[Len(logs')].id = Get(pendingLog).id
             /\ logs'[Len(logs')].officerId # ""
             /\ pendingLog' = None
             /\ currentView' = "dashboard"]_vars

\* A confirmed record is the last of logs and the dashboard is shown.
C6_Witness ==
    /\ Len(logs) > 0
    /\ isLocalRecord(logs[Len(logs)])
    /\ logs[Len(logs)].officerId = "Mana Meemark (OFF-002)"
    /\ currentView = "dashboard"
    /\ pendingLog = None

\* C7. A pull whose result has no scan records leaves logs unchanged; likewise,
\* and independently, for officers and checkpoints.
C7_EmptyPullKeepsLocal ==
    [][\A ok \in BOOLEAN, data \in SheetData :
          pullComplete(ok, data)
          => LET cloudData == fetchAllDataFromSheet(ok, data)
             IN /\ Len(cloudData.logs) = 0 => logs' = logs
                /\ Len(cloudData.officers) = 0 => officers' = officers
                /\ Len(cloudData.checkpoints) = 0 => checkpoints' = checkpoints]_vars

\* The pull that followed a confirmed record's push has completed and the
\* record is still there: that pull brought no scan records.
C7_Witness ==
    /\ scriptUrl
    /\ pulls = 0
    /\ pushesInFlight = 0
    /\ settleTimers = <<>>
    /\ Len(logs) = 1
    /\ isLocalRecord(logs[1])

\* C8 as claimed. Every record a Scanner draft produced stays in logs, with the
\* same status, timestamp and distanceFromTarget, in every later step.
C8_AppendOnly ==
    [][\A i \in DOMAIN logs :
          isLocalRecord(logs[i])
          => \E j \in DOMAIN logs' :
                /\ logs'[j].id = logs[i].id
                /\ logs'[j].status = logs[i].status
                /\ logs'[j].timestamp = logs[i].timestamp
                /\ logs'[j].distanceFromTarget = logs[i].distanceFromTarget]_vars

\* C8 amended. Every step keeps logs as a prefix of the new logs, except the
\* completion of a pull that brings a non-empty scan record collection, which
\* replaces logs wholesale.
C8_AppendOnlyUntilReplaced ==
    [][\/ IsPrefix(logs, logs')
       \/ \E ok \in BOOLEAN, data \in SheetData :
             /\ pullComplete(ok, data)
             /\ Len(fetchAllDataFromSheet(ok, data).logs) > 0]_vars

\* A confirmed record appended after a pulled one has outlived its own push,
\* the settle timer and the pull that followed.
C8_Witness ==
    /\ Len(logs) = 2
    /\ ~isLocalRecord(logs[1])
    /\ isLocalRecord(logs[2])
    /\ pulls = 0
    /\ pushesInFlight = 0
    /\ settleTimers = <<>>

\* C9. Local-first durability: the confirming turn itself stores the record and
\* shows the dashboard while the push, if one is started, is still in flight;
\* and the turn in which a push settles touches neither logs nor the view.
C9_LocalFirst ==
    /\ [][(handleFinalSubmit /\ selectedOfficerId # "")
             => /\ logs' = Append(logs, finalLog(Get(pendingLog)))
                /\ currentView' = "dashboard"
                /\ IF scriptUrl
                   THEN pushes'["LOG"] = pushes["LOG"] + 1
                   ELSE pushes' = pushes]_vars
    /\ [][\A kind \in PushKinds :
             pushReturn(kind) => logs' = logs /\ currentView' = currentView]_vars

\* The record is stored and the dashboard shown while its push is in flight.
C9_Witness ==
    /\ pushes["LOG"] = 1
    /\ currentView = "dashboard"
    /\ Len(logs) > 0
    /\ isLocalRecord(logs[Len(logs)])

\* C10 as claimed. A pull that is not started by the refresh button starts in
\* the turn of a settle timer that has run its full 2 seconds.
C10_PullAfterSettleDelay ==
    [][pulls' > pulls
          => \/ onRefresh
             \/ \E i \in DOMAIN settleTimers :
                   /\ settleTimers[i] >= SettleDelay
                   /\ settleTimers' = removeAt(settleTimers, i)]_vars

C12_LocationTimeout ==
    /\ [][\A i \in DOMAIN attempts :
             (scanTimeout(i) /\ attempts[i].live)
             => /\ alertMsg' = "Error: GPS timed out. Move to open sky."
                /\ processing' = FALSE
                /\ pendingLog' = pendingLog
                /\ logs' = logs
                /\ pushes' = pushes]_vars
    /\ [][\A i \in DOMAIN attempts, loc \in Readings, m \in NowMinutes :
             (scanResolve(i, loc, m) /\ attempts[i].settled)
             => /\ pendingLog' = pendingLog
                /\ processing' = processing
                /\ logs' = logs]_vars

\* The timeout alert is shown while the location request it outran is pending.
C12_Witness ==
    /\ alertMsg = "Error: GPS timed out. Move to open sky."
    /\ currentView = "scanner"
    /\ pendingLog = None
    /\ \E i \in DOMAIN attempts : attempts[i].settled /\ attempts[i].live

\* C13 as claimed. No attempt starts while processing is true, and a scanner
\* session never has two location acquisitions racing at the same time.
C13_NoInterleaving ==
    /\ [][Len(attempts') > Len(attempts) => ~processing]_vars
    /\ [](Cardinality({i \in DOMAIN attempts :
                          attempts[i].live /\ ~attempts[i].settled}) <= 1)

\* The rows a pull delivers: those of the body, or none when the fetch fails.
delivered(ok, data) ==
    IF ok THEN data ELSE [logs |-> <<>>, officers |-> <<>>, checkpoints |-> <<>>]

\* C14. When a pull completes, each of logs, officers and checkpoints is
\* replaced exactly when the pull delivered rows for it, whatever it delivered
\* for the other two; a replaced collection has one entry per delivered row, in
\* order, and nothing else, and an unreplaced one is unchanged.
C14_WholesaleReplace ==
    [][\A ok \in BOOLEAN, data \in SheetData :
          pullComplete(ok, data)
          => LET rows == delivered(ok, data)
             IN /\ IF Len(rows.logs) > 0
                   THEN /\ Len(logs') = Len(rows.logs)
                        /\ \A i \in DOMAIN logs' :
                              /\ logs'[i].checkpointName = rows.logs[i].checkpointName
                              /\ logs'[i].officerId = rows.logs[i].officerId
                              /\ logs'[i].status = rows.logs[i].status
                              /\ ~isLocalRecord(logs'[i])
                   ELSE logs' = logs
                /\ IF Len(rows.officers) > 0
                   THEN /\ Len(officers') = Len(rows.officers)
                        /\ \A i \in DOMAIN officers' : officers'[i].id = rows.officers[i].id
                   ELSE officers' = officers
                /\ IF Len(rows.checkpoints) > 0
                   THEN /\ Len(checkpoints') = Len(rows.checkpoints)
                        /\ \A i \in DOMAIN checkpoints' :
                              checkpoints'[i].id = rows.checkpoints[i].id
                   ELSE checkpoints' = checkpoints]_vars

\* A pull has replaced the scan records and the checkpoints by the remote ones
\* and has left the officers, for which it delivered nothing, as they were.
C14_Witness ==
    /\ pulls = 0
    /\ ~isSyncing
    /\ Len(logs) = Len(SheetLogRows)
    /\ \A i \in DOMAIN logs : ~isLocalRecord(logs[i])
    /\ idsOf(checkpoints) = idsOf(SheetCheckpointRows)
    /\ officers = DEFAULT_OFFICERS

\* C15. The turns that handle an error leave logs as it is: an attempt that
\* ends by timeout or sensor failure, an auto-scan of an unknown checkpoint, a
\* confirmation rejected for its missing officer, the return of a push
\* (whatever its outcome) and the completion of a failed pull.
C15_ErrorsKeepRecords ==
    [][( \/ \E i \in DOMAIN attempts : scanTimeout(i) \/ scanSensorError(i)
         \/ autoScanFire /\ attempts' = attempts
         \/ handleFinalSubmit /\ selectedOfficerId = ""
         \/ \E kind \in PushKinds : pushReturn(kind)
         \/ \E data \in SheetData : pullComplete(FALSE, data) )
          => logs' = logs]_vars

\* A location error has been reported while the collection holds a record.
C15_Witness ==
    /\ Len(logs) > 0
    /\ alertMsg \in {"Error: GPS timed out. Move to open sky.",
                     "Error: Location verification failed."}
    /\ currentView = "scanner"

\* C16. Cancelling a draft removes it and changes neither logs, checkpoints and
\* officers nor the pushes, timers and pulls in flight; and a record that a
\* confirmation appends is the draft pending at that moment, so a draft that was
\* cancelled, and is pending no more, is never appended.
C16_CancelDiscardsDraft ==
    /\ [][cancelReport
             => /\ pendingLog' = None
                /\ currentView' = "scanner"
                /\ logs' = logs
                /\ checkpoints' = checkpoints
                /\ officers' = officers
                /\ pushes' = pushes
                /\ settleTimers' = settleTimers
                /\ pulls' = pulls]_vars
    /\ [][(Len(logs') = Len(logs) + 1 /\ isLocalRecord(logs'[Len(logs')]))
             => /\ IsSome(pendingLog)
                /\ logs'[Len(logs')].id = Get(pendingLog).id
                /\ logs'[Len(logs')].timestamp = Get(pendingLog).timestamp]_vars

\* The scanner is back in its camera view after a draft was cancelled: the note
\* field still holds the note of the cancelled draft.
C16_Witness ==
    /\ currentView = "scanner"
    /\ pendingLog = None
    /\ noteText # ""
    /\ hasAutoScanned
    /\ logs = <<>>
    /\ pushesInFlight = 0


\* C17: sensor-device resources are released on every exit path: once a draft
\* is abandoned with Cancel no camera stream is active, and no stream is active
\* while the scanner is not shown, whatever the order of pending getUserMedia
\* calls, retries, remounts and unmounts.
C17_CameraReleased ==
    /\ [][cancelReport => camera'.active = 0]_vars
    /\ [](currentView # "scanner" => camera.active = 0)


\* C18. Every scan record that a pull puts into logs carries the checkpoint
\* name of its remote row, and its checkpointId is the placeholder "unknown",
\* which is the id of no checkpoint of the registry as the pull leaves it.
C18_RemoteNameOnly ==
    [][\A ok \in BOOLEAN, data \in SheetData :
          pullComplete(ok, data) /\ Len(delivered(ok, data).logs) > 0
          => \A i \in DOMAIN logs' :
                /\ logs'[i].checkpointName = data.logs[i].checkpointName
                /\ logs'[i].checkpointId = "unknown"
                /\ findById(checkpoints', logs'[i].checkpointId) = None]_vars

\* Pulled records are in logs, each with the placeholder id, while the registry
\* holds a checkpoint of the very name a record carries and one added by hand.
C18_Witness ==
    /\ Len(logs) > 0
    /\ \A i \in DOMAIN logs : logs[i].checkpointId = "unknown"
    /\ \E j \in DOMAIN checkpoints : checkpoints[j].name = logs[1].checkpointName
    /\ \E j \in DOMAIN checkpoints : checkpoints[j].name = "Gate B"


\* C19. The FIXED_TIME window is the configured tolerance, 0 included: a scan
\* of a checkpoint whose schedule has toleranceMinutes 0 passes the time check
\* only when the minute of the scan equals one of its fixedTimes.
C19_ZeroToleranceExact ==
    [][\A i \in DOMAIN attempts, loc \in Readings, m \in NowMinutes :
          ( /\ scanResolve(i, loc, m)
            /\ attempts[i].live /\ ~attempts[i].settled
            /\ scheduleChecked(attempts[i].targetCheckpoint)
            /\ Get(attempts[i].targetCheckpoint.schedule).toleranceMinutes = Some(0)
            /\ Get(pendingLog').status # "INVALID_TIME" )
          => \E k \in DOMAIN Get(Get(attempts[i].targetCheckpoint.schedule).fixedTimes) :
                m = targetMinutes(Get(Get(attempts[i].targetCheckpoint.schedule).fixedTimes)[k])]_vars


\* The schedule of the checkpoint is absent, or of type NONE or INTERVAL.
unscheduled(cp) ==
    \/ cp.schedule = None
    \/ Get(cp.schedule).type \in {"NONE", "INTERVAL"}

\* C20. A scan of a checkpoint whose schedule is absent, NONE or INTERVAL is
\* never INVALID_TIME, at whatever minute it resolves and whatever the
\* interval: its verdict is VALID when the fix is of poor accuracy or inside
\* the fence, and INVALID_LOCATION otherwise.
C20_UnscheduledPasses ==
    [][\A i \in DOMAIN attempts, loc \in Readings, m \in VerdictMinutes :
          ( /\ scanResolve(i, loc, m)
            /\ attempts[i].live /\ ~attempts[i].settled
            /\ unscheduled(attempts[i].targetCheckpoint) )
          => /\ IsSome(pendingLog')
             /\ Get(pendingLog').status # "INVALID_TIME"
             /\ Get(pendingLog').status =
                   IF accuracyOf(loc) > PoorAccuracy THEN "VALID"
                   ELSE IF calculateDistance(loc, attempts[i].targetCheckpoint.location)
                             > attempts[i].targetCheckpoint.allowedRadiusMeters
                        THEN "INVALID_LOCATION"
                        ELSE "VALID"]_vars

\* A draft is shown for an imported checkpoint that has no schedule, scanned
\* with a good fix outside its fence.
C20_Witness ==
    /\ IsSome(pendingLog)
    /\ Get(pendingLog).status = "INVALID_LOCATION"
    /\ \E j \in DOMAIN checkpoints :
          /\ checkpoints[j].id = Get(pendingLog).checkpointId
          /\ checkpoints[j].schedule = None


\* C21. The FIXED_TIME check compares minutes of day on the line 0..1439, with
\* no wrap through midnight: a scan of a checkpoint with a configured non-zero
\* tolerance passes the time check exactly when some fixedTimes entry t has
\* |now - t| <= tolerance, so 23:55 with tolerance 10 rejects 00:00 and 00:03
\* and accepts 23:59.
C21_NoMidnightWrap ==
    [][\A i \in DOMAIN attempts, loc \in Readings, m \in VerdictMinutes :
          ( /\ scanResolve(i, loc, m)
            /\ attempts[i].live /\ ~attempts[i].settled
            /\ scheduleChecked(attempts[i].targetCheckpoint)
            /\ IsSome(Get(attempts[i].targetCheckpoint.schedule).toleranceMinutes)
            /\ Get(Get(attempts[i].targetCheckpoint.schedule).toleranceMinutes) > 0 )
          => LET schedule == Get(attempts[i].targetCheckpoint.schedule)
                 times == Get(schedule.fixedTimes)
             IN /\ (Get(pendingLog').status # "INVALID_TIME")
                     <=> \E k \in DOMAIN times :
                            /\ m - targetMinutes(times[k]) <= Get(schedule.toleranceMinutes)
                            /\ targetMinutes(times[k]) - m <= Get(schedule.toleranceMinutes)
                /\ (m \in {0, 3} /\ times = << <<23, 55>> >>)
                     => Get(pendingLog').status = "INVALID_TIME"]_vars

\* A draft is shown for the imported checkpoint scheduled at 23:55 and it was
\* rejected for its time.
C21_Witness ==
    /\ IsSome(pendingLog)
    /\ Get(pendingLog).checkpointId = "cp-e"
    /\ Get(pendingLog).status = "INVALID_TIME"
    /\ \E j \in DOMAIN checkpoints :
          /\ checkpoints[j].id = "cp-e"
          /\ Get(checkpoints[j].schedule).fixedTimes = Some(<< <<23, 55>> >>)


\* C23. No two scan records of logs share an id, whether they were confirmed
\* here (id from the clock at the verdict) or pulled (id from the row index).
C23_UniqueIds ==
    \A i, j \in DOMAIN logs : i # j => logs[i].id # logs[j].id

\* Two records confirmed here, one after the other, are in logs.
C23_Witness ==
    /\ Len(logs) = 2
    /\ isLocalRecord(logs[1])
    /\ isLocalRecord(logs[2])


\* C24. The record a confirmation appends has the id, checkpointId,
\* checkpointName, timestamp, status, userLocation and distanceFromTarget of
\* the draft; its officerId is "name (id)" of the selected officer, or the bare
\* id when the roster no longer holds that officer; its note is the text of
\* the note field; its evidence reference is set exactly when a photo is attached.
C24_FinalizationFrame ==
    [][(handleFinalSubmit /\ selectedOfficerId # "")
          => LET draft == Get(pendingLog)
                 final == logs'[Len(logs')]
             IN /\ final.id = draft.id
                /\ final.checkpointId = draft.checkpointId
                /\ final.checkpointName = draft.checkpointName
                /\ final.timestamp = draft.timestamp
                /\ final.status = draft.status
                /\ final.userLocation = draft.userLocation
                /\ final.distanceFromTarget = draft.distanceFromTarget
                /\ \A k \in DOMAIN officers :
                      officers[k].id = selectedOfficerId
                      => final.officerId = officers[k].name \o " (" \o officers[k].id \o ")"
                /\ selectedOfficerId \notin idsOf(officers)
                      => final.officerId = selectedOfficerId
                /\ final.note = noteText
                /\ IsSome(final.evidencePhotoUrl) <=> hasPhoto]_vars

\* A record was confirmed under the bare id of an officer whom a pull had
\* taken off the roster, with the user's note and a photo.
C24_Witness ==
    /\ Len(logs) > 0
    /\ logs[Len(logs)].officerId = "OFF-002"
    /\ logs[Len(logs)].note = "Door locked"
    /\ IsSome(logs[Len(logs)].evidencePhotoUrl)
    /\ "OFF-002" \notin idsOf(officers)


\* C25. The thresholds of the verdict, for a scan whose schedule passes: a fix
\* at a distance equal to allowedRadiusMeters is inside the fence and VALID
\* unless its accuracy is poor; an accuracy of exactly 100 m is not poor, so a
\* fix outside the fence is INVALID_LOCATION; a fix without an accuracy counts
\* as accuracy 0, so it is judged by the fence alone.
C25_Thresholds ==
    [][\A i \in DOMAIN attempts, loc \in Readings, m \in VerdictMinutes :
          ( /\ scanResolve(i, loc, m)
            /\ attempts[i].live /\ ~attempts[i].settled
            /\ timeStatus(attempts[i].targetCheckpoint, m) = "VALID" )
          => LET cp == attempts[i].targetCheckpoint
                 distance == Get(pendingLog').distanceFromTarget
                 status == Get(pendingLog').status
             IN /\ distance = Abs(cp.location.latitude - loc.latitude)
                /\ (distance = cp.allowedRadiusMeters /\ loc.accuracy = Some(100))
                      => status = "VALID"
                /\ (distance > cp.allowedRadiusMeters /\ loc.accuracy = Some(100))
                      => status = "INVALID_LOCATION"
                /\ loc.accuracy = None
                      => status = IF distance <= cp.allowedRadiusMeters
                                  THEN "VALID" ELSE "INVALID_LOCATION"]_vars

\* A draft is shown for a fix of accuracy exactly 100 m taken exactly on the
\* fence of its checkpoint, and it is VALID.
C25_Witness ==
    /\ IsSome(pendingLog)
    /\ Get(pendingLog).status = "VALID"
    /\ Get(Get(pendingLog).userLocation).accuracy = Some(100)
    /\ \E j \in DOMAIN checkpoints :
          /\ checkpoints[j].id = Get(pendingLog).checkpointId
          /\ checkpoints[j].allowedRadiusMeters = Get(pendingLog).distanceFromTarget


\* The attempts of the mounted Scanner whose race is not settled yet.
pendingAttempts == {i \in DOMAIN attempts : attempts[i].live /\ ~attempts[i].settled}

\* The k-th suspended attempt is pending and has waited for the whole timeout.
overdue(k) == k \in pendingAttempts /\ attempts[k].elapsed >= GpsTimeout

\* C26. Every attempt of an open scanner terminates and can be retried. A
\* reading ends it in a draft, a sensor error or the timeout ends it in an alert
\* without a new draft, and each of these turns clears processing; when no
\* attempt is pending and no draft is shown the simulation buttons are
\* enabled; and an attempt that has waited for its 10 s comes to an end (unless
\* an alert blocks the page), also when the sensor never answers.
C26_AttemptsTerminate ==
    /\ [][\A i \in DOMAIN attempts, loc \in Readings, m \in NowMinutes :
            (i \in pendingAttempts /\ scanResolve(i, loc, m))
            => /\ ~processing'
               /\ IsSome(pendingLog')
               /\ alertMsg' = ""]_vars
    /\ [][\A i \in DOMAIN attempts :
            (i \in pendingAttempts /\ (scanSensorError(i) \/ scanTimeout(i)))
            => /\ ~processing'
               /\ pendingLog' = pendingLog
               /\ alertMsg' # ""]_vars
    /\ []((currentView = "scanner" /\ idle /\ pendingAttempts = {}) => ~processing)
    /\ \A k \in 1..MaxAttempts : overdue(k) ~> (~overdue(k) \/ ~idle)

\* The sensor did not answer in time: the timeout has ended the attempt, whose
\* location request is still open, the alert was dismissed and the buttons of
\* the open scanner are enabled again.
C26_Witness ==
    /\ currentView = "scanner"
    /\ idle
    /\ ~processing
    /\ pendingLog = None
    /\ \E i \in DOMAIN attempts : attempts[i].live /\ attempts[i].settled


\* C27. A reading, a sensor error or a timeout of an attempt whose Scanner was
\* closed or unmounted changes nothing: no draft, no record, no push, no alert,
\* and the state of the App and of the Scanner now shown stay as they are.
C27_LateReadingDiscarded ==
    [][\A i \in DOMAIN attempts :
          ( /\ ~attempts[i].live
            /\ \/ \E loc \in Readings, m \in NowMinutes : scanResolve(i, loc, m)
               \/ scanSensorError(i)
               \/ scanTimeout(i) )
          => /\ UNCHANGED <<appVars, scannerVars>>
             /\ UNCHANGED <<pushes, settleTimers, pulls, alertMsg, autoScan, camera>>
             /\ Len(attempts') <= Len(attempts)]_vars

\* The scanner was closed while an attempt waited for its reading and was
\* opened again: the attempt of the old Scanner is still suspended.
C27_Witness ==
    /\ currentView = "scanner"
    /\ ~processing
    /\ pendingLog = None
    /\ \E i \in DOMAIN attempts : ~attempts[i].live /\ ~attempts[i].settled


\* C28. Last pull wins by completion order. When the last of several
\* overlapping pulls completes after another of them has completed, the scan
\* records it delivered, if any, are logs exactly, whatever the earlier
\* response had stored and whichever pull was started first; a collection for
\* which it delivered nothing stays as the earlier completions left it.
C28_LastPullWins ==
    [][\A ok \in BOOLEAN, data \in RecordSheetData :
          (pullComplete(ok, data) /\ ~isSyncing)
          => LET rows == delivered(ok, data)
             IN /\ logs' = IF Len(rows.logs) > 0 THEN parsedLogs(rows.logs) ELSE logs
                /\ Len(rows.logs) > 0 => Len(logs') = Len(rows.logs)
                /\ officers' = officers
                /\ checkpoints' = checkpoints]_vars

\* Two pulls overlap: one response, of two rows, has been processed (which
\* cleared isSyncing) and has replaced the record confirmed here, and the other
\* pull is still in flight.
C28_Witness ==
    /\ pulls = 1
    /\ ~isSyncing
    /\ scans > 0
    /\ Len(logs) = 2
    /\ logs[2].id = "sheet-1"


\* C29: the isSyncing flag is true exactly while at least one pull is in
\* flight: it is true from the start of a pull and does not return to false
\* while another, overlapping pull is still pending.
C29_SyncingFlag ==
    isSyncing <=> pulls > 0


\* The schedule of cp is FIXED_TIME with the given fixedTimes field.
fixedTimeWith(cp, times) ==
    /\ IsSome(cp.schedule)
    /\ Get(cp.schedule).type = "FIXED_TIME"
    /\ Get(cp.schedule).fixedTimes = times

\* C30. A scan of a checkpoint whose schedule is FIXED_TIME with an empty
\* fixedTimes list is INVALID_TIME at every minute and for every reading; a scan
\* of a checkpoint whose schedule is FIXED_TIME with no fixedTimes field is
\* never INVALID_TIME: its verdict is the one of the fix and the fence alone.
C30_EmptyVersusMissing ==
    [][\A i \in DOMAIN attempts, loc \in Readings, m \in VerdictMinutes :
          (scanResolve(i, loc, m) /\ attempts[i].live /\ ~attempts[i].settled)
          => /\ fixedTimeWith(attempts[i].targetCheckpoint, Some(<< >>))
                => /\ IsSome(pendingLog')
                   /\ Get(pendingLog').status = "INVALID_TIME"
             /\ fixedTimeWith(attempts[i].targetCheckpoint, None)
                => /\ IsSome(pendingLog')
                   /\ Get(pendingLog').status =
                         IF accuracyOf(loc) > PoorAccuracy THEN "VALID"
                         ELSE IF calculateDistance(loc, attempts[i].targetCheckpoint.location)
                                   > attempts[i].targetCheckpoint.allowedRadiusMeters
                              THEN "INVALID_LOCATION"
                              ELSE "VALID"]_vars

\* A draft rejected for its time is shown for the imported checkpoint whose
\* fixedTimes list is empty, and the registry also holds the checkpoint whose
\* fixedTimes field is missing.
C30_Witness ==
    /\ IsSome(pendingLog)
    /\ Get(pendingLog).status = "INVALID_TIME"
    /\ \E j \in DOMAIN checkpoints :
          /\ checkpoints[j].id = Get(pendingLog).checkpointId
          /\ fixedTimeWith(checkpoints[j], Some(<< >>))
    /\ \E j \in DOMAIN checkpoints : fixedTimeWith(checkpoints[j], None)


\* C22. Persisted checkpoints and officers that are absent or malformed are
\* replaced by the defaults and never make the start fail: the "System Error"
\* page is never shown and checkpoints is always an array (every handler
\* stores an array, so a value that is not one is a persisted value that was
\* kept). Every change of checkpoints or officers is written to its key: what
\* a start would load from localStorage is the value in memory.
C22_PersistenceFaithful ==
    /\ currentView # "error"
    /\ isArray(checkpoints)
    /\ loadCheckpoints(persisted.securepatrol_checkpoints) = checkpoints
    /\ loadOfficers(persisted.securepatrol_officers) = officers


====
